---- MODULE Spec2Model ----
(***************************************************************************)
(* Numscull transport, session and domain layer.                           *)
(*                                                                         *)
(* Server side: tests/mock_server.py (MockServer, EncryptedChannel,        *)
(* server_key_exchange).  Client side: mockscull/src/numscull (transport,  *)
(* crypto, client).                                                        *)
(*                                                                         *)
(* Cryptography is symbolic.  A keypair is named by the place that         *)
(* generated it; a NaCl Box is the unordered pair of the two keypairs it   *)
(* combines (the public half of one, the secret half of the other), so     *)
(* that Box(pkA, skB) = Box(pkB, skA).  A sealed block opens iff the Box   *)
(* and the nonce match and the bytes were not altered.  os.urandom keys    *)
(* and nonces are fresh for every connection.                              *)
(***************************************************************************)
EXTENDS Integers, Sequences, FiniteSets, TLC

(***************************************************************************)
(* Bounds of the model.                                                    *)
(***************************************************************************)
MaxSessions == 2     \* connections accepted by MockServer.run
MaxRequests == 2     \* encrypted requests one client issues
MaxInject == 1       \* items an on-path attacker writes into client-to-server streams
MaxCapture == 1      \* items the attacker keeps a copy of
MaxStoreOps == 5     \* requests of the single client of SpecStore
MaxSharedOps == 2     \* requests of each client of SpecShared
MaxDispatchOps == 3   \* requests of the client of SpecDispatch
MaxNoteOps == 5       \* requests of all clients of SpecNotes together
MaxFlowOps == 6       \* requests of the client of SpecFlow
MaxSearchOps == 5     \* requests of the client of SpecSearch
MaxPageOps == 6       \* requests of the client of SpecPage
MaxProjectOps == 9   \* requests of the client of the projects specification
MaxNodeOps == 9      \* requests of the client of the node specification
MaxRaceOps == 2       \* flow requests of each client of SpecRace
MaxTags == 15         \* hashtags of the long-tagged note text

(***************************************************************************)
(* Program constants.                                                      *)
(***************************************************************************)
HEADER_SIZE == 10
BLOCK_SIZE == 512
TAG_LEN == 16
NONCE_LEN == 24
KEY_LEN == 32
ENCRYPTED_BLOCK_SIZE == BLOCK_SIZE + TAG_LEN
PAGE_SIZE == 100     \* page.get("size", 100)

None == "None"       \* Python's None where a string is expected
NoExc == "-"         \* no exception raised

Sessions == 1..MaxSessions

(***************************************************************************)
(* Python dict: insertion-ordered, single-valued.  A dict is a sequence of *)
(* [k, v] entries with pairwise distinct keys.                             *)
(***************************************************************************)
EmptyDict == << >>

Keys(d) == {d[i].k : i \in 1..Len(d)}

Has(d, key) == \E i \in 1..Len(d) : d[i].k = key

Get(d, key) == d[CHOOSE i \in 1..Len(d) : d[i].k = key].v

\* d[key] = val: an existing key keeps its position, a new key is appended
Put(d, key, val) ==
  IF Has(d, key)
    THEN [i \in 1..Len(d) |-> IF d[i].k = key THEN [k |-> key, v |-> val] ELSE d[i]]
    ELSE Append(d, [k |-> key, v |-> val])

\* del d[key]
Del(d, key) == SelectSeq(d, LAMBDA e : e.k # key)

\* next(iter(d.keys()), None), with 0 standing for None among ids
FirstKey(d) == IF Len(d) = 0 THEN 0 ELSE d[1].k

RECURSIVE Digits(_)
\* len(str(n)) for n >= 0
Digits(n) == IF n < 10 THEN 1 ELSE 1 + Digits(n \div 10)


(***************************************************************************)
(* json.dumps lengths (default separators ", " and ": ", ASCII text).      *)
(* Only the byte length of a message matters to the transport.             *)
(***************************************************************************)
RECURSIVE SumSeq(_)
SumSeq(q) == IF Len(q) = 0 THEN 0 ELSE Head(q) + SumSeq(Tail(q))

LStr(s) == IF s = None THEN 4 ELSE Len(s) + 2     \* "..." or null
LInt(n) == Digits(n)
LId(n) == IF n = 0 THEN 4 ELSE Digits(n)          \* an optional id: null when absent
LNull == 4
\* a list of elements with the given lengths
LArr(lens) == 2 + SumSeq(lens) + (IF Len(lens) = 0 THEN 0 ELSE 2 * (Len(lens) - 1))
\* an object: fields is a sequence of <<key, length of the value>>
LObj(fields) ==
  LArr([i \in 1..Len(fields) |-> Len(fields[i][1]) + 2 + 2 + fields[i][2]])

\* pack_plaintext_bytes: the framed length of a payload of n bytes
pack_plaintext_bytes(n) == HEADER_SIZE + n

(***************************************************************************)
(* Inputs.                                                                 *)
(***************************************************************************)
KnownIdentities == {"alice", "bob"}      \* <config>/users/<name>.pub exists
REPOSITORY == "/tmp/p"
URI == "file:///a.py"
URI2 == "file:///b.py"
ISO_LEN == 32                            \* len(datetime.now(timezone.utc).isoformat())
BigTextLen == 300

\* note texts are sequences of characters
ShortText == <<"h", "i", " ", "#", "a">>
BigText == [i \in 1..BigTextLen |-> "x"]

\* a second short text, and a text of MaxTags hashtags "#a #b #c ..."
OtherText == <<"y", "o", " ", "#", "b">>
TagLetters == <<"a", "b", "c", "d", "e", "f", "g", "h", "i", "j", "k", "l", "m", "n", "o",
                "p", "q", "r", "s", "t">>
ManyTags ==
  [i \in 1..(3 * MaxTags - 1) |->
     IF i % 3 = 1 THEN "#" ELSE IF i % 3 = 2 THEN TagLetters[(i + 1) \div 3] ELSE " "]

IsWordChar(c) == c \notin {" ", "#"}     \* \w over the model's alphabet

RECURSIVE WordAt(_, _)
\* the maximal run of word characters of text starting at position i, as a string
WordAt(text, i) ==
  IF i > Len(text) \/ ~IsWordChar(text[i]) THEN "" ELSE text[i] \o WordAt(text, i + 1)

\* set(re.findall(r"#(\w+)", text))
extract_hashtags(text) ==
  {WordAt(text, i + 1) : i \in {j \in 1..Len(text) : text[j] = "#" /\ WordAt(text, j + 1) # ""}}

\* a text with an upper-case hashtag
UpperText == <<"y", "o", " ", "#", "A">>

RECURSIVE Lower(_)
\* str.lower(): the text (a sequence of characters) as a lower-case string;
\* "A" is the upper-case letter of the model's alphabet
Lower(text) ==
  IF text = << >> THEN ""
  ELSE (IF Head(text) = "A" THEN "a" ELSE Head(text)) \o Lower(Tail(text))

(***************************************************************************)
(* Requests.  One record shape for all methods; a field a method does not  *)
(* send holds None (names), 0 (ids, Python's None/0 are both falsy) or     *)
(* << >> (text).                                                           *)
(***************************************************************************)
Req(id, method) ==
  [id |-> id, method |-> method, name |-> None, flowId |-> 0, parentId |-> 0,
   childId |-> 0, nodeId |-> 0, line |-> 0, text |-> << >>, owner |-> None, uri |-> URI,
   createdDate |-> 0, modifiedDate |-> 0, author |-> None, by |-> None, ordering |-> None,
   page |-> << >>]

ReqName(id, method, name, owner) == [Req(id, method) EXCEPT !.name = name, !.owner = owner]
ReqNote(id, line, text) == [Req(id, "notes/set") EXCEPT !.line = line, !.text = text]
ReqLoc(id, method, uri, line) == [Req(id, method) EXCEPT !.uri = uri, !.line = line]
ReqNode(id, method, nid) == [Req(id, method) EXCEPT !.nodeId = nid]
ReqFlow(id, method, fid) == [Req(id, method) EXCEPT !.flowId = fid]
\* notes/set of a note that carries its own createdDate and modifiedDate
ReqDated(id, line, text, created, modified) ==
  [ReqNote(id, line, text) EXCEPT !.createdDate = created, !.modifiedDate = modified]
ReqSearch(id, method, text) == [Req(id, method) EXCEPT !.text = text]
ReqColumns(id, author, by, ordering) ==
  [Req(id, "notes/search/columns") EXCEPT !.author = author, !.by = by, !.ordering = ordering]

\* a request with params["page"] = {"index": index, "size": size}
ReqPage(req, index, size) == [req EXCEPT !.page = <<index, size>>]

\* page.get("index", 0) and page.get("size", 100) of params.get("page", {})
PageIndex(msg) == IF msg.page = << >> THEN 0 ELSE msg.page[1]
PageSize(msg) == IF msg.page = << >> THEN PAGE_SIZE ELSE msg.page[2]

\* a date in JSON: the ISO string of the server's clock (0), or the string
\* the client put into the note, here the decimal digits of a number
LDate(d) == IF d = 0 THEN ISO_LEN + 2 ELSE Digits(d) + 2

\* the location object {"fileId": {"uri": URI}, "line": line}
LLocation(line) ==
  LObj(<< <<"fileId", LObj(<< <<"uri", LStr(URI)>> >>)>>, <<"line", LInt(line)>> >>)

\* the "page" member the client wrappers add to params when a page is given
LPage(req) ==
  IF req.page = << >> THEN << >>
  ELSE << <<"page", LObj(<< <<"index", LInt(req.page[1])>>, <<"size", LInt(req.page[2])>> >>)>> >>

\* the params object the client wrapper of the method builds (client.py)
LParams(req) ==
  CASE req.method = "control/create/project" ->
         LObj(<< <<"name", LStr(req.name)>>, <<"repository", LStr(REPOSITORY)>>,
                 <<"ownerIdentity", LStr(req.owner)>> >>)
    [] req.method \in {"control/change/project", "control/remove/project"} ->
         LObj(<< <<"name", LStr(req.name)>> >>)
    [] req.method = "notes/set" ->
         LObj(<< <<"note", LObj(<< <<"location", LLocation(req.line)>>,
                                  <<"text", Len(req.text) + 2>> >>
                                \o (IF req.createdDate # 0
                                      THEN << <<"createdDate", LDate(req.createdDate)>> >>
                                      ELSE << >>)
                                \o (IF req.modifiedDate # 0
                                      THEN << <<"modifiedDate", LDate(req.modifiedDate)>> >>
                                      ELSE << >>))>>,
                 <<"verifyFileHash", LNull>> >>)
    [] req.method \in {"notes/search", "notes/search/tags"} ->
         LObj(<< <<"text", Len(req.text) + 2>> >> \o LPage(req))
    [] req.method = "notes/search/columns" ->
         LObj(<< <<"filter", LObj(<< <<"author", LStr(req.author)>> >>)>>,
                 <<"order", LObj(<< <<"by", LStr(req.by)>>,
                                    <<"ordering", LStr(req.ordering)>> >>)>> >> \o LPage(req))
    [] req.method \in {"control/subscribe", "control/unsubscribe"} ->
         LObj(<< <<"channels", LArr(<< >>)>> >>)
    [] req.method = "notes/remove" -> LObj(<< <<"location", LLocation(req.line)>> >>)
    [] req.method = "notes/for/file" ->
         LObj(<< <<"fileId", LObj(<< <<"uri", LStr(req.uri)>> >>)>> >> \o LPage(req))
    [] req.method = "flow/create" ->
         LObj(<< <<"name", LStr("F")>>, <<"description", LStr("d")>>,
                 <<"createdDate", ISO_LEN + 2>> >>)
    [] req.method = "flow/remove" -> LObj(<< <<"flowId", LInt(req.flowId)>> >>)
    [] req.method = "flow/add/node" ->
         LObj(<< <<"location", LLocation(1)>>, <<"note", LStr("n")>>, <<"color", LStr("#f00")>> >>
              \o (IF req.flowId # 0 THEN << <<"flowId", LInt(req.flowId)>> >> ELSE << >>)
              \o (IF req.parentId # 0 THEN << <<"parentId", LInt(req.parentId)>> >> ELSE << >>)
              \o (IF req.childId # 0 THEN << <<"childId", LInt(req.childId)>> >> ELSE << >>))
    [] req.method = "flow/fork/node" ->
         LObj(<< <<"location", LLocation(1)>>, <<"note", LStr("n")>>, <<"color", LStr("#f00")>>,
                 <<"parentId", LInt(req.parentId)>> >>)
    [] req.method = "flow/remove/node" -> LObj(<< <<"nodeId", LInt(req.nodeId)>> >>)
    [] req.method = "flow/set/node" ->
         LObj(<< <<"nodeId", LInt(req.nodeId)>>,
                 <<"node", LObj(<< <<"note", LStr("m")>> >>)>> >>)
    [] req.method = "flow/get" -> LObj(<< <<"flowId", LInt(req.flowId)>> >>)
    [] OTHER -> LObj(<< >>)

\* len(json.dumps({"id": ..., "method": ..., "params": ...}))
LenRequest(req) ==
  LObj(<< <<"id", LInt(req.id)>>, <<"method", LStr(req.method)>>, <<"params", LParams(req)>> >>)


(***************************************************************************)
(* The domain store and the RPC dispatcher (MockServer._handle_request).   *)
(***************************************************************************)
\* the project record control/create/project stores
NewProject(owner) ==
  [repository |-> REPOSITORY, ownerIdentity |-> owner, notes |-> EmptyDict,
   flows |-> EmptyDict, flow_infos |-> EmptyDict, next_flow_id |-> 1,
   next_node_id |-> EmptyDict]

\* Python truthiness of an optional name
Falsy(name) == name = None \/ name = ""

\* tags: defaultdict(int) filled from the notes; a function tag -> count
TagCount(notes) ==
  LET all == UNION {extract_hashtags(notes[i].v.text) : i \in 1..Len(notes)}
  IN [t \in all |-> Cardinality({i \in 1..Len(notes) : t \in extract_hashtags(notes[i].v.text)})]

RECURSIVE SetToSeq(_)
SetToSeq(S) == IF S = {} THEN << >> ELSE LET x == CHOOSE y \in S : TRUE
                                        IN <<x>> \o SetToSeq(S \ {x})

\* json.dumps([{"tag": k, "count": v} ...])
LTagCount(tc) ==
  LET ts == SetToSeq(DOMAIN tc)
  IN LArr([i \in 1..Len(ts) |->
            LObj(<< <<"tag", LStr(ts[i])>>, <<"count", LInt(tc[ts[i]])>> >>)])

\* json.dumps of a stored note (full_note)
LNote(n) ==
  LObj(<< <<"location", LLocation(n.line)>>, <<"text", Len(n.text) + 2>>,
          <<"author", LStr(n.author)>>, <<"modifiedBy", LStr(n.modifiedBy)>>,
          <<"createdDate", LDate(n.createdDate)>>, <<"modifiedDate", LDate(n.modifiedDate)>>,
          <<"orphaned", LNull>> >>)

\* json.dumps of a flow info
LInfo(i) ==
  LObj(<< <<"infoId", LInt(i.infoId)>>, <<"name", LStr(i.name)>>,
          <<"description", LStr(i.description)>>, <<"author", LStr(i.author)>>,
          <<"modifiedBy", LStr(i.modifiedBy)>>, <<"createdDate", ISO_LEN + 2>>,
          <<"modifiedDate", ISO_LEN + 2>> >>)

\* json.dumps of one entry of control/list/project
LProjectEntry(e) ==
  LObj(<< <<"name", LStr(e.k)>>, <<"repository", LStr(e.v.repository)>>,
          <<"ownerIdentity", LStr(e.v.ownerIdentity)>> >>)

\* a response that does not echo the request id
Resp_IdZero(id, method, reason, rlen) ==
  [id |-> 0, method |-> method, reason |-> reason, rlen |-> rlen, notes |-> << >>,
   flowId |-> 0, nodeId |-> 0, flowIds |-> << >>, tags |-> << >>, maxPage |-> 0,
   names |-> << >>]

\* a response; rlen is len(json.dumps(result)), reason is set for control/error
\* only, notes is result["notes"] of the methods that return a list of notes,
\* tags is result["tags"] of notes/tag/count as a function tag -> count,
\* maxPage is result["maxPage"], names the names of result["projects"],
\* flowId and nodeId are the ids in the result of the flow methods (0: none),
\* flowIds the infoIds of result["flowInfos"]
Resp(id, method, reason, rlen) ==
  [id |-> id, method |-> method, reason |-> reason, rlen |-> rlen, notes |-> << >>,
   flowId |-> 0, nodeId |-> 0, flowIds |-> << >>, tags |-> << >>, maxPage |-> 0,
   names |-> << >>]
Ok(msg, rlen) == Resp(msg.id, msg.method, "", rlen)
OkNotes(msg, rlen, notes) == [Ok(msg, rlen) EXCEPT !.notes = notes]
OkNode(msg, fid, nid) ==
  [Ok(msg, LObj(<< <<"flowId", LInt(fid)>>, <<"nodeId", LInt(nid)>> >>))
     EXCEPT !.flowId = fid, !.nodeId = nid]
Err(msg, reason) == Resp(msg.id, "control/error", reason, LObj(<< <<"reason", LStr(reason)>> >>))
NoResp == Resp(0, "", "", 0)

\* len(json.dumps({"id": ..., "method": ..., "result": ...}))
LenResponse(r) ==
  LObj(<< <<"id", LInt(r.id)>>, <<"method", LStr(r.method)>>, <<"result", r.rlen>> >>)

\* what one call of _handle_request leaves: the shared attributes, and the
\* response it returns or the exception it raises
Out(projects, active, resp, exc) ==
  [projects |-> projects, active_project |-> active, resp |-> resp, exc |-> exc]

\* a control/change/project that asks for an active project first
ChangeProject_Guarded(st, msg) ==
  IF Falsy(st.active_project) \/ ~Has(st.projects, st.active_project)
    THEN Out(st.projects, st.active_project, Err(msg, "no active project"), NoExc)
    ELSE Out(st.projects, msg.name, Ok(msg, LObj(<< <<"name", LStr(msg.name)>> >>)), NoExc)

\* control/change/project (lines 192-194)
ChangeProject(st, msg) ==
  Out(st.projects, msg.name, Ok(msg, LObj(<< <<"name", LStr(msg.name)>> >>)), NoExc)

\* control/remove/project (lines 195-200)
RemoveProject(st, msg) ==
  Out(IF Has(st.projects, msg.name) THEN Del(st.projects, msg.name) ELSE st.projects,
      IF st.active_project = msg.name THEN None ELSE st.active_project,
      Ok(msg, LObj(<< >>)), NoExc)

\* a control/create/project that leaves a project of that name as it is
CreateProject_KeepsExisting(st, msg) ==
  Out(IF Has(st.projects, IF msg.name = None THEN "" ELSE msg.name)
        THEN st.projects
        ELSE Put(st.projects, IF msg.name = None THEN "" ELSE msg.name,
                 NewProject(IF msg.owner = None THEN "" ELSE msg.owner)),
      st.active_project, Ok(msg, LObj(<< >>)), NoExc)

\* control/create/project (lines 188-191)
CreateProject(st, msg) ==
  Out(Put(st.projects, IF msg.name = None THEN "" ELSE msg.name,
          NewProject(IF msg.owner = None THEN "" ELSE msg.owner)),
      st.active_project, Ok(msg, LObj(<< >>)), NoExc)

\* control/list/project (lines 185-187)
ListProject(st, msg) ==
  Out(st.projects, st.active_project,
      [Ok(msg, LObj(<< <<"projects",
                         LArr([i \in 1..Len(st.projects) |-> LProjectEntry(st.projects[i])])>> >>))
         EXCEPT !.names = [i \in 1..Len(st.projects) |-> st.projects[i].k]],
      NoExc)

\* a notes/set that adds an entry without looking for the key
NotesSet_Appends(st, proj, msg) ==
  LET full_note == [uri |-> msg.uri, line |-> msg.line, text |-> msg.text,
                    author |-> st.identity, modifiedBy |-> st.identity,
                    createdDate |-> msg.createdDate, modifiedDate |-> msg.modifiedDate]
      notes == Append(proj.notes, [k |-> <<msg.uri, msg.line>>, v |-> full_note])
  IN Out(Put(st.projects, st.active_project, [proj EXCEPT !.notes = notes]),
         st.active_project,
         OkNotes(msg, LObj(<< <<"note", LNote(full_note)>>,
                              <<"tagCount", LTagCount(TagCount(notes))>> >>),
                 <<full_note>>),
         NoExc)

\* a notes/set that stores the note in every project
NotesSet_EveryProject(st, proj, msg) ==
  LET key == <<msg.uri, msg.line>>
      full_note == [uri |-> msg.uri, line |-> msg.line, text |-> msg.text,
                    author |-> st.identity, modifiedBy |-> st.identity,
                    createdDate |-> msg.createdDate, modifiedDate |-> msg.modifiedDate]
      notes == Put(proj.notes, key, full_note)
  IN Out([i \in 1..Len(st.projects) |->
            [k |-> st.projects[i].k,
             v |-> [st.projects[i].v EXCEPT !.notes = Put(@, key, full_note)]]],
         st.active_project,
         OkNotes(msg, LObj(<< <<"note", LNote(full_note)>>,
                              <<"tagCount", LTagCount(TagCount(notes))>> >>),
                 <<full_note>>),
         NoExc)

\* notes/set (lines 211-223)
NotesSet(st, proj, msg) ==
  LET key == <<msg.uri, msg.line>>
      full_note == [uri |-> msg.uri, line |-> msg.line, text |-> msg.text,
                    author |-> st.identity, modifiedBy |-> st.identity,
                    createdDate |-> msg.createdDate, modifiedDate |-> msg.modifiedDate]
      notes == Put(proj.notes, key, full_note)
      proj2 == [proj EXCEPT !.notes = notes]
  IN Out(Put(st.projects, st.active_project, proj2), st.active_project,
         OkNotes(msg, LObj(<< <<"note", LNote(full_note)>>,
                              <<"tagCount", LTagCount(TagCount(notes))>> >>),
                 <<full_note>>),
         NoExc)

\* Python's q[idx:idx + size] for idx, size >= 0
Slice(q, idx, size) ==
  SubSeq(q, idx + 1, IF idx + size < Len(q) THEN idx + size ELSE Len(q))

RECURSIVE InsertByLine(_, _)
\* n put into the line-sorted list q behind the notes of the same line
InsertByLine(q, n) ==
  IF q = << >> THEN <<n>>
  ELSE IF n.line < Head(q).line THEN <<n>> \o q
  ELSE <<Head(q)>> \o InsertByLine(Tail(q), n)

RECURSIVE SortByLine(_)
\* notes.sort(key=line): a stable sort
SortByLine(q) ==
  IF q = << >> THEN << >>
  ELSE InsertByLine(SortByLine(SubSeq(q, 1, Len(q) - 1)), q[Len(q)])

\* [n for k, n in proj["notes"].items() if k[0] == uri]
NotesOfFile(d, uri) ==
  LET hit == SelectSeq(d, LAMBDA e : e.k[1] = uri) IN [i \in 1..Len(hit) |-> hit[i].v]

\* notes/for/file (lines 224-234)
NotesForFile(st, proj, msg) ==
  LET notes == SortByLine(NotesOfFile(proj.notes, msg.uri))
      idx == PageIndex(msg)
      size == PageSize(msg)
      paginated == Slice(notes, idx, size)
      max_page == IF size > 0 /\ (Len(notes) - 1) \div size > 0
                    THEN (Len(notes) - 1) \div size ELSE 0
  IN Out(st.projects, st.active_project,
         [OkNotes(msg, LObj(<< <<"fileId", LObj(<< <<"uri", LStr(msg.uri)>> >>)>>,
                               <<"notes", LArr([i \in 1..Len(paginated) |-> LNote(paginated[i])])>>,
                               <<"maxPage", LInt(max_page)>> >>),
                  paginated) EXCEPT !.maxPage = max_page],
         NoExc)

\* notes/remove (lines 235-246)
NotesRemove(st, proj, msg) ==
  LET key == <<msg.uri, msg.line>>
      notes == IF Has(proj.notes, key) THEN Del(proj.notes, key) ELSE proj.notes
      proj2 == [proj EXCEPT !.notes = notes]
  IN Out(Put(st.projects, st.active_project, proj2), st.active_project,
         Ok(msg, LObj(<< <<"location", LLocation(msg.line)>>,
                         <<"tagCount", LTagCount(TagCount(notes))>> >>)),
         NoExc)

\* list(proj["notes"].values()): the notes in the order their keys were inserted
NoteValues(d) == [i \in 1..Len(d) |-> d[i].v]

\* the result {"notes": paginated, "maxPage": max_page} of the search
\* methods.  max_page is max(0, (len(notes) - 1) // size) if size > 0 else 0:
\* Python's // rounds down, so an empty list gives 0
SearchResult(msg, notes) ==
  LET idx == PageIndex(msg)
      size == PageSize(msg)
      paginated == Slice(notes, idx, size)
      max_page == IF size = 0 \/ Len(notes) = 0 THEN 0 ELSE (Len(notes) - 1) \div size
  IN [OkNotes(msg, LObj(<< <<"notes", LArr([i \in 1..Len(paginated) |-> LNote(paginated[i])])>>,
                           <<"maxPage", LInt(max_page)>> >>),
              paginated) EXCEPT !.maxPage = max_page]

\* notes/search/tags (lines 256-264)
NotesSearchTags(st, proj, msg) ==
  LET text == Lower(msg.text)
      notes == SelectSeq(NoteValues(proj.notes), LAMBDA n : text \in extract_hashtags(n.text))
  IN Out(st.projects, st.active_project, SearchResult(msg, notes), NoExc)

\* notes/search/columns (lines 265-275): the filter on author; params["order"]
\* is not read
NotesSearchColumns(st, proj, msg) ==
  LET all == NoteValues(proj.notes)
      notes == IF Falsy(msg.author) THEN all
               ELSE SelectSeq(all, LAMBDA n : n.author = msg.author)
  IN Out(st.projects, st.active_project, SearchResult(msg, notes), NoExc)

\* notes/tag/count (lines 276-281)
NotesTagCount(st, proj, msg) ==
  LET tags == TagCount(proj.notes)
  IN Out(st.projects, st.active_project,
         [Ok(msg, LObj(<< <<"tags", LTagCount(tags)>> >>)) EXCEPT !.tags = tags],
         NoExc)

\* a flow/create that numbers the flow after the flows the project holds
FlowCreate_CountsFlows(st, proj, msg) ==
  LET fid == Len(proj.flows) + 1
      info == [infoId |-> fid, name |-> "F", description |-> "d",
               author |-> st.identity, modifiedBy |-> st.identity]
      proj2 == [proj EXCEPT !.next_flow_id = fid + 1,
                            !.flow_infos = Put(proj.flow_infos, fid, info),
                            !.flows = Put(proj.flows, fid, [nodes |-> EmptyDict]),
                            !.next_node_id = Put(proj.next_node_id, fid, 1)]
  IN Out(Put(st.projects, st.active_project, proj2), st.active_project,
         [Ok(msg, LObj(<< <<"flow", LObj(<< <<"info", LInfo(info)>>,
                                           <<"nodes", LObj(<< >>)>> >>)>> >>))
            EXCEPT !.flowId = fid],
         NoExc)

\* flow/create (lines 282-288)
FlowCreate(st, proj, msg) ==
  LET fid == proj.next_flow_id
      info == [infoId |-> fid, name |-> "F", description |-> "d",
               author |-> st.identity, modifiedBy |-> st.identity]
      proj2 == [proj EXCEPT !.next_flow_id = fid + 1,
                            !.flow_infos = Put(proj.flow_infos, fid, info),
                            !.flows = Put(proj.flows, fid, [nodes |-> EmptyDict]),
                            !.next_node_id = Put(proj.next_node_id, fid, 1)]
  IN Out(Put(st.projects, st.active_project, proj2), st.active_project,
         [Ok(msg, LObj(<< <<"flow", LObj(<< <<"info", LInfo(info)>>,
                                           <<"nodes", LObj(<< >>)>> >>)>> >>))
            EXCEPT !.flowId = fid],
         NoExc)

\* flow/remove (lines 343-348)
FlowRemove(st, proj, msg) ==
  LET fid == msg.flowId
      proj2 == IF Has(proj.flows, fid)
                 THEN [proj EXCEPT !.flows = Del(proj.flows, fid),
                                   !.flow_infos = Del(proj.flow_infos, fid)]
                 ELSE proj
  IN Out(Put(st.projects, st.active_project, proj2), st.active_project,
         [Ok(msg, LObj(<< <<"flowId", LId(fid)>>, <<"linkedFlows", LArr(<< >>)>> >>))
            EXCEPT !.flowId = fid],
         NoExc)


\* a flow/add/node that numbers the node after the nodes the flow holds
FlowAddNode_CountsNodes(st, proj, msg) ==
  LET fid == IF msg.flowId = 0 THEN FirstKey(proj.flows) ELSE msg.flowId
  IN IF fid = 0
       THEN Out(st.projects, st.active_project, Err(msg, "no flow"), NoExc)
     ELSE IF ~Has(proj.next_node_id, fid) \/ ~Has(proj.flows, fid)
       THEN Out(st.projects, st.active_project, NoResp, "KeyError")
     ELSE
       LET nodes == Get(proj.flows, fid).nodes
           nid == Len(nodes) + 1
           node == [note |-> "n",
                    outEdges |-> IF msg.childId # 0 THEN <<msg.childId>> ELSE << >>,
                    inEdges |-> IF msg.parentId # 0 THEN <<msg.parentId>> ELSE << >>]
           nodes1 == IF msg.parentId # 0 /\ Has(nodes, msg.parentId)
                       THEN LET par == Get(nodes, msg.parentId)
                            IN Put(nodes, msg.parentId,
                                   [par EXCEPT !.outEdges = Append(par.outEdges, nid)])
                       ELSE nodes
           proj2 == [proj EXCEPT !.flows = Put(proj.flows, fid,
                                               [nodes |-> Put(nodes1, nid, node)])]
       IN Out(Put(st.projects, st.active_project, proj2), st.active_project,
              OkNode(msg, fid, nid), NoExc)

\* flow/add/node (lines 298-315).  proj["next_node_id"][fid] raises KeyError for
\* a flow id this project never issued; for a flow that was removed the counter
\* is still there and is incremented before proj["flows"][fid] raises KeyError.
FlowAddNode(st, proj, msg) ==
  LET fid == IF msg.flowId = 0 THEN FirstKey(proj.flows) ELSE msg.flowId
  IN IF fid = 0
       THEN Out(st.projects, st.active_project, Err(msg, "no flow"), NoExc)
     ELSE IF ~Has(proj.next_node_id, fid)
       THEN Out(st.projects, st.active_project, NoResp, "KeyError")
     ELSE
       LET nid == Get(proj.next_node_id, fid)
           proj1 == [proj EXCEPT !.next_node_id = Put(proj.next_node_id, fid, nid + 1)]
       IN IF ~Has(proj.flows, fid)
            THEN Out(Put(st.projects, st.active_project, proj1), st.active_project,
                     NoResp, "KeyError")
            ELSE
              LET nodes == Get(proj.flows, fid).nodes
                  node == [note |-> "n",
                           outEdges |-> IF msg.childId # 0 THEN <<msg.childId>> ELSE << >>,
                           inEdges |-> IF msg.parentId # 0 THEN <<msg.parentId>> ELSE << >>]
                  nodes1 == IF msg.parentId # 0 /\ Has(nodes, msg.parentId)
                              THEN LET par == Get(nodes, msg.parentId)
                                   IN Put(nodes, msg.parentId,
                                          [par EXCEPT !.outEdges = Append(par.outEdges, nid)])
                              ELSE nodes
                  nodes2 == Put(nodes1, nid, node)
                  proj2 == [proj1 EXCEPT !.flows = Put(proj.flows, fid, [nodes |-> nodes2])]
              IN Out(Put(st.projects, st.active_project, proj2), st.active_project,
                     OkNode(msg, fid, nid),
                     NoExc)

\* a search that ends at the flow created last among those that hold the id
FirstFlowWith_Last(flows, nid) ==
  LET hit == SelectSeq(flows, LAMBDA e : Has(e.v.nodes, nid))
  IN IF Len(hit) = 0 THEN 0 ELSE hit[Len(hit)].k

\* next((f for f, fl in proj["flows"].items() if nid in fl["nodes"]), None),
\* with 0 standing for None
FirstFlowWith(flows, nid) ==
  LET hit == SelectSeq(flows, LAMBDA e : Has(e.v.nodes, nid))
  IN IF Len(hit) = 0 THEN 0 ELSE hit[1].k

\* flow/fork/node (lines 316-327)
FlowForkNode(st, proj, msg) ==
  LET parent_id == msg.parentId
      fid == FirstFlowWith(proj.flows, parent_id)
  IN IF fid = 0
       THEN Out(st.projects, st.active_project, Err(msg, "parent not found"), NoExc)
       ELSE
         LET nid == Get(proj.next_node_id, fid)
             nodes == Get(proj.flows, fid).nodes
             par == Get(nodes, parent_id)
             node == [note |-> "n", outEdges |-> << >>, inEdges |-> <<parent_id>>]
             nodes1 == Put(nodes, parent_id, [par EXCEPT !.outEdges = Append(par.outEdges, nid)])
             nodes2 == Put(nodes1, nid, node)
             proj2 == [proj EXCEPT !.next_node_id = Put(proj.next_node_id, fid, nid + 1),
                                   !.flows = Put(proj.flows, fid, [nodes |-> nodes2])]
         IN Out(Put(st.projects, st.active_project, proj2), st.active_project,
                OkNode(msg, fid, nid),
                NoExc)

\* a flow/remove/node that answers a missing node like a removed one
FlowRemoveNode_Silent(st, proj, msg) ==
  LET nid == msg.nodeId
      fid == FirstFlowWith(proj.flows, nid)
  IN IF fid = 0
       THEN Out(st.projects, st.active_project, OkNode(msg, 0, nid), NoExc)
       ELSE
         LET nodes == Del(Get(proj.flows, fid).nodes, nid)
             proj2 == [proj EXCEPT !.flows = Put(proj.flows, fid, [nodes |-> nodes])]
         IN Out(Put(st.projects, st.active_project, proj2), st.active_project,
                OkNode(msg, fid, nid), NoExc)

\* flow/remove/node (lines 336-342): the node is deleted from the first flow
\* that holds the id; the edge lists of the other nodes are left as they are
FlowRemoveNode(st, proj, msg) ==
  LET nid == msg.nodeId
      fid == FirstFlowWith(proj.flows, nid)
  IN IF fid = 0
       THEN Out(st.projects, st.active_project, Err(msg, "node not found"), NoExc)
       ELSE
         LET nodes == Del(Get(proj.flows, fid).nodes, nid)
             proj2 == [proj EXCEPT !.flows = Put(proj.flows, fid, [nodes |-> nodes])]
         IN Out(Put(st.projects, st.active_project, proj2), st.active_project,
                OkNode(msg, fid, nid),
                NoExc)

\* flow/set/node (lines 328-335) as flow_set_node(nid, {"note": "m"}) calls it:
\* the node of the first flow that holds the id takes the note and keeps its
\* edge lists
FlowSetNode(st, proj, msg) ==
  LET nid == msg.nodeId
      fid == FirstFlowWith(proj.flows, nid)
  IN IF fid = 0
       THEN Out(st.projects, st.active_project, Err(msg, "node not found"), NoExc)
       ELSE
         LET nodes == Get(proj.flows, fid).nodes
             nodes1 == Put(nodes, nid, [Get(nodes, nid) EXCEPT !.note = "m"])
             proj2 == [proj EXCEPT !.flows = Put(proj.flows, fid, [nodes |-> nodes1])]
         IN Out(Put(st.projects, st.active_project, proj2), st.active_project,
                OkNode(msg, fid, nid), NoExc)

\* json.dumps of a node of a flow
LNode(n) ==
  LObj(<< <<"location", LLocation(1)>>, <<"note", LStr(n.note)>>, <<"color", LStr("#f00")>>,
          <<"outEdges", LArr([i \in 1..Len(n.outEdges) |-> LInt(n.outEdges[i])])>>,
          <<"inEdges", LArr([i \in 1..Len(n.inEdges) |-> LInt(n.inEdges[i])])>>,
          <<"name", LStr("")>> >>)

\* flow/get (lines 292-297)
FlowGet(st, proj, msg) ==
  LET fid == msg.flowId
  IN IF ~Has(proj.flows, fid)
       THEN Out(st.projects, st.active_project, Err(msg, "flow not found"), NoExc)
       ELSE
         LET nodes == Get(proj.flows, fid).nodes
             lnodes == LObj([i \in 1..Len(nodes) |-> <<ToString(nodes[i].k), LNode(nodes[i].v)>>])
         IN Out(st.projects, st.active_project,
                [Ok(msg, LObj(<< <<"flow", LObj(<< <<"info", LInfo(Get(proj.flow_infos, fid))>>,
                                                  <<"nodes", lnodes>> >>)>> >>))
                   EXCEPT !.flowId = fid],
                NoExc)

\* flow/get/all (lines 289-291)
FlowGetAll(st, proj, msg) ==
  LET infos == proj.flow_infos
  IN Out(st.projects, st.active_project,
         [Ok(msg, LObj(<< <<"flowInfos", LArr([i \in 1..Len(infos) |-> LInfo(infos[i].v)])>> >>))
            EXCEPT !.flowIds = [i \in 1..Len(infos) |-> infos[i].v.infoId]],
         NoExc)

\* the guard of line 207: no cursor, or a cursor naming no project
NoActiveProject(st) == Falsy(st.active_project) \/ ~Has(st.projects, st.active_project)

\* _handle_request (lines 181-358); st holds self.projects, self.active_project
\* and self.identity as the call finds them
HandleRequest(st, msg) ==
  CASE msg.method = "control/list/project" -> ListProject(st, msg)
    [] msg.method = "control/create/project" -> CreateProject(st, msg)
    [] msg.method = "control/change/project" -> ChangeProject(st, msg)
    [] msg.method = "control/remove/project" -> RemoveProject(st, msg)
    [] msg.method \in {"control/subscribe", "control/unsubscribe"} ->
         Out(st.projects, st.active_project,
             Ok(msg, LObj(<< <<"channels", LArr(<< >>)>> >>)), NoExc)
    [] msg.method = "control/exit" ->
         Out(st.projects, st.active_project, Ok(msg, LObj(<< >>)), NoExc)
    [] OTHER ->
         IF NoActiveProject(st)
           THEN Out(st.projects, st.active_project, Err(msg, "no active project"), NoExc)
           ELSE LET proj == Get(st.projects, st.active_project)
                IN CASE msg.method = "notes/set" -> NotesSet(st, proj, msg)
                     [] msg.method = "notes/for/file" -> NotesForFile(st, proj, msg)
                     [] msg.method = "notes/remove" -> NotesRemove(st, proj, msg)
                     [] msg.method = "notes/search/tags" -> NotesSearchTags(st, proj, msg)
                     [] msg.method = "notes/search/columns" ->
                          NotesSearchColumns(st, proj, msg)
                     [] msg.method = "notes/tag/count" -> NotesTagCount(st, proj, msg)
                     [] msg.method = "flow/create" -> FlowCreate(st, proj, msg)
                     [] msg.method = "flow/add/node" -> FlowAddNode(st, proj, msg)
                     [] msg.method = "flow/get/all" -> FlowGetAll(st, proj, msg)
                     [] msg.method = "flow/get" -> FlowGet(st, proj, msg)
                     [] msg.method = "flow/set/node" -> FlowSetNode(st, proj, msg)
                     [] msg.method = "flow/fork/node" -> FlowForkNode(st, proj, msg)
                     [] msg.method = "flow/remove/node" -> FlowRemoveNode(st, proj, msg)
                     [] msg.method = "flow/remove" -> FlowRemove(st, proj, msg)
                     [] OTHER -> Out(st.projects, st.active_project,
                                     Err(msg, "unknown method: " \o msg.method), NoExc)


(***************************************************************************)
(* Keys, boxes and the encrypted channel (EncryptedChannel in crypto.py    *)
(* and mock_server.py).                                                    *)
(***************************************************************************)
\* a keypair, named by who generated it
StaticKey(name) == <<"static", name>>
EphKey(role, s) == <<role, ToString(s)>>       \* role: S_recv, S_send, C_recv, C_send
NoKey == <<"-", "-">>

\* the shared key crypto_box / crypto_box_open derive from (pk, sk)
BoxKey(pk, sk) == {pk, sk}

\* A counter is a Python int, which has no width: it is held as five digits
\* in base 2^16, least significant first.  The first four are the 64 bits
\* struct.pack("<Q", ...) writes; the fifth is what lies above them.
Limb == 2^16

\* the int n, for n below 2^31
U64(n) == <<n % Limb, n \div Limb, 0, 0, 0>>

\* the largest value "<Q" takes: 2^64 - 1
MaxU64 == <<Limb - 1, Limb - 1, Limb - 1, Limb - 1, 0>>

\* counter += 1
Inc(c) ==
  LET i == IF \E k \in 1..4 : c[k] # Limb - 1
             THEN CHOOSE k \in 1..4 : c[k] # Limb - 1 /\ \A j \in 1..(k - 1) : c[j] = Limb - 1
             ELSE 5
  IN [k \in 1..5 |-> IF k < i THEN 0 ELSE IF k = i THEN c[k] + 1 ELSE c[k]]

\* counter + n, for small n
RECURSIVE Plus(_, _)
Plus(c, n) == IF n = 0 THEN c ELSE Plus(Inc(c), n - 1)

\* the eight bytes of "<Q", as four digits
Le64(c) == SubSeq(c, 1, 4)

\* a nonce that ignores the counter
counter_nonce_Fixed(counter) ==
  [le64 |-> Le64(U64(1)), zeros |-> NONCE_LEN - 8, exc |-> NoExc]

\* a nonce made of the low 64 bits of the counter, whatever lies above them
counter_nonce_Wraps(counter) ==
  [le64 |-> Le64(counter), zeros |-> NONCE_LEN - 8, exc |-> NoExc]

\* counter_nonce: struct.pack("<Q", counter) followed by 16 zero bytes;
\* struct.pack raises struct.error for a counter above 2^64 - 1
counter_nonce(counter) ==
  IF counter[5] # 0
    THEN [le64 |-> << >>, zeros |-> 0, exc |-> "struct.error"]
    ELSE [le64 |-> Le64(counter), zeros |-> NONCE_LEN - 8, exc |-> NoExc]

\* a channel that takes the peer's two public keys the other way round
EncryptedChannel_Swapped(ours_recv_sk, ours_send_sk, theirs_recv_pk, theirs_send_pk) ==
  [ours_recv_sk |-> ours_recv_sk, ours_send_sk |-> ours_send_sk,
   theirs_recv_pk |-> theirs_send_pk, theirs_send_pk |-> theirs_recv_pk,
   send_nonce |-> U64(1), recv_nonce |-> U64(1)]

\* EncryptedChannel.__init__
EncryptedChannel(ours_recv_sk, ours_send_sk, theirs_recv_pk, theirs_send_pk) ==
  [ours_recv_sk |-> ours_recv_sk, ours_send_sk |-> ours_send_sk,
   theirs_recv_pk |-> theirs_recv_pk, theirs_send_pk |-> theirs_send_pk,
   send_nonce |-> U64(1), recv_nonce |-> U64(1)]

NoChannel ==
  [ours_recv_sk |-> NoKey, ours_send_sk |-> NoKey, theirs_recv_pk |-> NoKey,
   theirs_send_pk |-> NoKey, send_nonce |-> U64(0), recv_nonce |-> U64(0)]

\* The plaintext of one block: flen is the u16 at [0..2), the length of the
\* framed region; hdr is the form of its first HEADER_SIZE bytes and json_len the
\* number they spell; json tells whether the gathered bytes parse as a JSON
\* object, and msg is that object.
Body(flen, hdr, json_len, json, msg) ==
  [flen |-> flen, hdr |-> hdr, json_len |-> json_len, json |-> json, msg |-> msg]

\* the block send() builds for a message of n JSON bytes (lines 79-86)
Frame(msg, n) == Body(pack_plaintext_bytes(n), "LEN10", n, "object", msg)

\* int(header.decode("ascii")): Python's int() takes ten digits, and also a sign,
\* surrounding blanks and fewer than ten characters; it raises ValueError otherwise
IntParses(hdr) == hdr \in {"LEN10", "signed", "blank", "short"}

\* 4.1: a header is ten ASCII decimal digits
WellFormedHeader(hdr) == hdr = "LEN10"

\* crypto_box(block, counter_nonce(send_nonce), theirs_send_pk, ours_send_sk)
Seal(ch, body) ==
  [kind |-> "block", box |-> BoxKey(ch.theirs_send_pk, ch.ours_send_sk),
   nonce |-> counter_nonce(ch.send_nonce), mac |-> TRUE, src |-> "peer", body |-> body]

\* an open that does not bind the nonce
CanOpen_AnyNonce(ch, item) ==
  /\ item.kind = "block"
  /\ item.mac
  /\ item.box = BoxKey(ch.theirs_recv_pk, ch.ours_recv_sk)

\* crypto_box_open(ct, counter_nonce(recv_nonce), theirs_recv_pk, ours_recv_sk)
\* succeeds iff the block was sealed with the same shared key and nonce and is intact
CanOpen(ch, item) ==
  /\ item.kind = "block"
  /\ item.mac
  /\ item.box = BoxKey(ch.theirs_recv_pk, ch.ours_recv_sk)
  /\ item.nonce = counter_nonce(ch.recv_nonce)

\* the key-exchange block: nonce || crypto_box(recv_pk || send_pk || random)
\* under the static keys; the random nonce travels with it
EphBlock(pk, sk, recv_pk, send_pk) ==
  [kind |-> "eph", box |-> BoxKey(pk, sk), mac |-> TRUE, src |-> "peer",
   recv_pk |-> recv_pk, send_pk |-> send_pk]

CanOpenEph(pk, sk, item) ==
  item.kind = "eph" /\ item.mac /\ item.box = BoxKey(pk, sk)

\* a plaintext frame on the raw socket (pack_plaintext)
Plain(msg) == [kind |-> "plain", src |-> "peer", msg |-> msg]

\* a recv that takes the length prefix of the first block for JSON bytes
RecvBlock_CountsHeader(r, item) ==
  LET ch2 == [r.ch EXCEPT !.recv_nonce = Inc(r.ch.recv_nonce)]
      b == item.body
      carried == b.flen
      got1 == IF carried < b.json_len THEN carried ELSE b.json_len
      got2 == r.got + b.flen
  IN IF counter_nonce(r.ch.recv_nonce).exc # NoExc
       THEN [r EXCEPT !.exc = counter_nonce(r.ch.recv_nonce).exc, !.done = FALSE]
     ELSE IF ~CanOpen(r.ch, item)
       THEN [r EXCEPT !.ch = ch2, !.exc = "CryptoError", !.done = FALSE]
     ELSE IF ~r.gathering
       THEN IF ~IntParses(b.hdr)
              THEN [r EXCEPT !.ch = ch2, !.exc = "ValueError", !.done = FALSE]
            ELSE IF got1 < b.json_len
              THEN [r EXCEPT !.ch = ch2, !.gathering = TRUE, !.need = b.json_len,
                             !.got = got1, !.json = b.json, !.msg = b.msg, !.done = FALSE]
            ELSE IF b.json # "object"
              THEN [r EXCEPT !.ch = ch2, !.exc = "ValueError", !.done = FALSE]
            ELSE [r EXCEPT !.ch = ch2, !.msg = b.msg, !.json = b.json, !.done = TRUE]
     ELSE IF got2 < r.need
       THEN [r EXCEPT !.ch = ch2, !.got = got2, !.done = FALSE]
     ELSE IF r.json # "object"
       THEN [r EXCEPT !.ch = ch2, !.gathering = FALSE, !.exc = "ValueError", !.done = FALSE]
     ELSE [r EXCEPT !.ch = ch2, !.gathering = FALSE, !.done = TRUE]

(***************************************************************************)
(* EncryptedChannel.recv, one block at a time.  r holds the receiver's     *)
(* channel and the loop's locals: need = json_len, got = len(json_bytes),  *)
(* msg = the message being gathered; gathering tells whether the call is   *)
(* inside the while loop.  The result is the receiver after the block,     *)
(* with done = TRUE when recv returns and exc set when it raises.          *)
(***************************************************************************)
RecvBlock(r, item) ==
  LET ch2 == [r.ch EXCEPT !.recv_nonce = Inc(r.ch.recv_nonce)]
      b == item.body
      carried == IF b.flen > HEADER_SIZE THEN b.flen - HEADER_SIZE ELSE 0
      got1 == IF carried < b.json_len THEN carried ELSE b.json_len
      got2 == r.got + b.flen
  IN IF counter_nonce(r.ch.recv_nonce).exc # NoExc
       THEN [r EXCEPT !.exc = counter_nonce(r.ch.recv_nonce).exc, !.done = FALSE]
     ELSE IF ~CanOpen(r.ch, item)
       THEN [r EXCEPT !.ch = ch2, !.exc = "CryptoError", !.done = FALSE]
     ELSE IF ~r.gathering
       THEN IF ~IntParses(b.hdr)
              THEN [r EXCEPT !.ch = ch2, !.exc = "ValueError", !.done = FALSE]
            ELSE IF got1 < b.json_len
              THEN [r EXCEPT !.ch = ch2, !.gathering = TRUE, !.need = b.json_len,
                             !.got = got1, !.json = b.json, !.msg = b.msg, !.done = FALSE]
            ELSE IF b.json # "object"
              THEN [r EXCEPT !.ch = ch2, !.exc = "ValueError", !.done = FALSE]
            ELSE [r EXCEPT !.ch = ch2, !.msg = b.msg, !.json = b.json, !.done = TRUE]
     ELSE IF got2 < r.need
       THEN [r EXCEPT !.ch = ch2, !.got = got2, !.done = FALSE]
     ELSE IF r.json # "object"
       THEN [r EXCEPT !.ch = ch2, !.gathering = FALSE, !.exc = "ValueError", !.done = FALSE]
     ELSE [r EXCEPT !.ch = ch2, !.gathering = FALSE, !.done = TRUE]


(***************************************************************************)
(* State.                                                                  *)
(***************************************************************************)
VARIABLES
  projects,        \* MockServer.projects: dict name -> project
  active_project,  \* MockServer.active_project
  identity,        \* MockServer.identity
  srv,             \* per connection: the handle_client thread
  cli,             \* per connection: the NumscullClient
  c2s,             \* per connection: bytes written by the client side, unread by the server
  s2c,             \* per connection: bytes written by the server, unread by the client
  hist,            \* per connection: what was received, sent, sealed and opened so far
  captured,        \* the ciphertext an on-path observer has seen
  injected         \* number of items the attacker has written

vars == <<projects, active_project, identity, srv, cli, c2s, s2c, hist, captured, injected>>

store == <<projects, active_project, identity>>

NoMsg == Req(0, "")

SrvInit ==
  [pc |-> "LISTEN", ch |-> NoChannel, gathering |-> FALSE, need |-> 0, got |-> 0,
   json |-> "object", msg |-> NoMsg, done |-> FALSE, exc |-> NoExc, identity |-> None,
   local |-> 0]     \* the handler's local variable fid or nid, between its statements

CliInit ==
  [pc |-> "NEW", ch |-> NoChannel, gathering |-> FALSE, need |-> 0, got |-> 0,
   json |-> "object", msg |-> NoResp, done |-> FALSE, exc |-> NoExc,
   identity |-> None, sk |-> None, msg_id |-> 0, sent |-> 0]

HistInit ==
  [reqs |-> << >>,      \* ids of the requests recv() returned to the server loop
   resps |-> << >>,     \* the responses the server sealed and sent
   replies |-> << >>,   \* the plaintext init replies the server sent
   eph |-> 0,           \* key-exchange blocks the server sent
   sealed_c |-> << >>,  \* counters the client sealed with
   sealed_s |-> << >>,  \* counters the server sealed with
   opened_c |-> << >>,  \* counters the client opened with
   opened_s |-> << >>,  \* counters the server opened with
   seen_s |-> << >>,    \* who wrote each block the server's channel read
   cursor |-> None]     \* the project this connection's requests selected last

Init ==
  /\ projects = EmptyDict
  /\ active_project = None
  /\ identity = None
  /\ srv = [s \in Sessions |-> SrvInit]
  /\ cli = [s \in Sessions |-> CliInit]
  /\ c2s = [s \in Sessions |-> << >>]
  /\ s2c = [s \in Sessions |-> << >>]
  /\ hist = [s \in Sessions |-> HistInit]
  /\ captured = {}
  /\ injected = 0

\* the socket is closed on the server side / on the client side
SrvClosed(s) == srv[s].pc = "CLOSED"
CliClosed(s) == cli[s].pc = "CLOSED"

\* the thread ends: the exception leaves handle_client through finally: sock.close()
SrvRaise(r, exc) == [r EXCEPT !.pc = "CLOSED", !.exc = exc]

(***************************************************************************)
(* Client: NumscullClient (client.py) and do_key_exchange (crypto.py).     *)
(***************************************************************************)
\* identity name and the identity whose secret key file the client loaded
Profiles == {<<"alice", "alice">>, <<"bob", "bob">>, <<"mallory", "mallory">>}

\* both ends of the connection are closed
Finished(s) == srv[s].pc = "CLOSED" /\ cli[s].pc = "CLOSED"

\* connect(); MockServer.run accepts and starts handle_client.  Connections are
\* numbered in the order they are accepted and run one after another: a finished
\* connection's thread locals, client object and socket buffers are dropped.
ClientConnect(s, prof) ==
  /\ cli[s].pc = "NEW"
  /\ \A t \in Sessions : t < s => Finished(t)
  /\ cli' = [t \in Sessions |->
               IF t = s THEN [CliInit EXCEPT !.pc = "CONNECTED", !.identity = prof[1], !.sk = prof[2]]
               ELSE IF t < s THEN [CliInit EXCEPT !.pc = "CLOSED"] ELSE cli[t]]
  /\ srv' = [t \in Sessions |->
               IF t = s THEN [SrvInit EXCEPT !.pc = "INIT"]
               ELSE IF t < s THEN [SrvInit EXCEPT !.pc = "CLOSED"] ELSE srv[t]]
  /\ c2s' = [t \in Sessions |-> IF t < s THEN << >> ELSE c2s[t]]
  /\ s2c' = [t \in Sessions |-> IF t < s THEN << >> ELSE s2c[t]]
  /\ hist' = [t \in Sessions |-> IF t < s THEN HistInit ELSE hist[t]]
  /\ UNCHANGED <<store, captured, injected>>

\* a server that gives every connection a project map of its own
ClientConnectShared_FreshStore(s, prof) ==
  /\ cli[s].pc = "NEW"
  /\ \A t \in Sessions : t < s => cli[t].pc # "NEW"
  /\ cli' = [cli EXCEPT ![s] = [CliInit EXCEPT !.pc = "CONNECTED", !.identity = prof[1],
                                               !.sk = prof[2]]]
  /\ srv' = [srv EXCEPT ![s] = [SrvInit EXCEPT !.pc = "INIT"]]
  /\ projects' = EmptyDict
  /\ active_project' = None
  /\ UNCHANGED <<identity, c2s, s2c, hist, captured, injected>>

\* MockServer.run accepts a connection while earlier ones are still open: each
\* gets its own handle_client thread on the one MockServer object
ClientConnectShared(s, prof) ==
  /\ cli[s].pc = "NEW"
  /\ \A t \in Sessions : t < s => cli[t].pc # "NEW"
  /\ cli' = [cli EXCEPT ![s] = [CliInit EXCEPT !.pc = "CONNECTED", !.identity = prof[1],
                                               !.sk = prof[2]]]
  /\ srv' = [srv EXCEPT ![s] = [SrvInit EXCEPT !.pc = "INIT"]]
  /\ UNCHANGED <<store, c2s, s2c, hist, captured, injected>>

\* control_init, up to the first recv_plaintext (lines 62-68)
ClientInit(s) ==
  /\ cli[s].pc = "CONNECTED"
  /\ cli[s].msg_id = 0
  /\ cli' = [cli EXCEPT ![s].pc = "INIT_SENT", ![s].msg_id = 1]
  /\ c2s' = [c2s EXCEPT ![s] = Append(@, Plain([id |-> 1, method |-> "control/init",
                                                identity |-> cli[s].identity]))]
  /\ UNCHANGED <<store, srv, s2c, hist, captured, injected>>

\* _send without a channel: any method goes out as a plaintext frame (lines 42-45)
ClientPlain(s, method) ==
  /\ cli[s].pc = "CONNECTED"
  /\ cli[s].msg_id = 0
  /\ cli' = [cli EXCEPT ![s].pc = "PLAIN_SENT", ![s].msg_id = 1]
  /\ c2s' = [c2s EXCEPT ![s] = Append(@, Plain([id |-> 1, method |-> method,
                                                identity |-> cli[s].identity]))]
  /\ UNCHANGED <<store, srv, s2c, hist, captured, injected>>

\* recv_plaintext of the reply (line 68 / line 45); EOFError when the server closed
ClientRecvPlain(s) ==
  /\ cli[s].pc \in {"INIT_SENT", "PLAIN_SENT"}
  /\ IF s2c[s] = << >>
       THEN /\ SrvClosed(s)
            /\ cli' = [cli EXCEPT ![s].pc = "FAILED", ![s].exc = "EOFError"]
            /\ s2c' = s2c
       ELSE /\ s2c' = [s2c EXCEPT ![s] = Tail(@)]
            /\ cli' = [cli EXCEPT ![s].pc = IF Head(s2c[s]).kind # "plain" THEN "FAILED"
                                             ELSE IF cli[s].pc = "INIT_SENT" THEN "KX_WAIT"
                                             ELSE "CONNECTED",
                                  ![s].exc = IF Head(s2c[s]).kind # "plain"
                                               THEN "ValueError" ELSE NoExc]
  /\ UNCHANGED <<store, srv, c2s, hist, captured, injected>>

\* do_key_exchange (crypto.py lines 105-139): read the server's block, open it
\* under the static keys, send our own block, build the channel
ClientKeyExchange(s) ==
  /\ cli[s].pc = "KX_WAIT"
  /\ IF s2c[s] = << >>
       THEN /\ SrvClosed(s)
            /\ cli' = [cli EXCEPT ![s].pc = "FAILED", ![s].exc = "EOFError"]
            /\ UNCHANGED <<s2c, c2s>>
       ELSE LET item == Head(s2c[s])
                mine == EphBlock(StaticKey("server"), StaticKey(cli[s].sk),
                                 EphKey("C_recv", s), EphKey("C_send", s))
            IN /\ s2c' = [s2c EXCEPT ![s] = Tail(@)]
               /\ IF CanOpenEph(StaticKey("server"), StaticKey(cli[s].sk), item)
                    THEN /\ c2s' = [c2s EXCEPT ![s] = Append(@, mine)]
                         /\ cli' = [cli EXCEPT ![s].pc = "READY",
                                      ![s].ch = EncryptedChannel(EphKey("C_recv", s),
                                                  EphKey("C_send", s), item.send_pk, item.recv_pk)]
                    ELSE /\ cli' = [cli EXCEPT ![s].pc = "FAILED", ![s].exc = "CryptoError"]
                         /\ c2s' = c2s
  /\ UNCHANGED <<store, srv, hist, captured, injected>>

\* a send that leaves send_nonce as it was
ChannelSend_KeepsCounter(ch, msg, n) ==
  IF pack_plaintext_bytes(n) > BLOCK_SIZE - 2
    THEN [ch |-> ch, out |-> << >>, exc |-> "ValueError"]
    ELSE [ch |-> ch, out |-> <<Seal(ch, Frame(msg, n))>>, exc |-> NoExc]

\* a send that refuses the message that fills the block
ChannelSend_Strict(ch, msg, n) ==
  IF pack_plaintext_bytes(n) >= BLOCK_SIZE - 2
    THEN [ch |-> ch, out |-> << >>, exc |-> "ValueError"]
    ELSE [ch |-> [ch EXCEPT !.send_nonce = Inc(ch.send_nonce)],
          out |-> <<Seal(ch, Frame(msg, n))>>, exc |-> NoExc]

\* EncryptedChannel.send (crypto.py lines 63-79) of a message of n JSON bytes:
\* the size check comes first, then the nonce is made of the counter, the
\* counter advances, the block is sealed and written
ChannelSend(ch, msg, n) ==
  IF pack_plaintext_bytes(n) > BLOCK_SIZE - 2
    THEN [ch |-> ch, out |-> << >>, exc |-> "ValueError"]
  ELSE IF counter_nonce(ch.send_nonce).exc # NoExc
    THEN [ch |-> ch, out |-> << >>, exc |-> counter_nonce(ch.send_nonce).exc]
    ELSE [ch |-> [ch EXCEPT !.send_nonce = Inc(ch.send_nonce)],
          out |-> <<Seal(ch, Frame(msg, n))>>, exc |-> NoExc]

\* send_raw on the channel (lines 38-52): _next_id, channel.send, then channel.recv
ClientSend(s, req) ==
  /\ cli[s].pc = "READY"
  /\ ~cli[s].gathering
  /\ req.id = cli[s].msg_id + 1
  /\ LET r == ChannelSend(cli[s].ch, req, LenRequest(req))
     IN /\ cli' = [cli EXCEPT ![s].ch = r.ch, ![s].msg_id = req.id, ![s].sent = @ + 1,
                              ![s].exc = r.exc,
                              ![s].pc = IF r.exc = NoExc THEN "WAIT_RESP" ELSE "READY"]
        /\ c2s' = [c2s EXCEPT ![s] = @ \o r.out]
        /\ hist' = [hist EXCEPT ![s].sealed_c = @ \o [i \in 1..Len(r.out) |-> r.out[i].nonce.le64]]
  /\ UNCHANGED <<store, srv, s2c, captured, injected>>


\* A client that seals its own blocks (enc_send in demo/setup_demo_server.py:
\* the session keys and the counter, no size check and its own framing): the
\* framed region is whatever the client puts there.
RawBodies(id) ==
  LET req == Req(id, "control/list/project")
      n == LenRequest(req)
  IN { Body(pack_plaintext_bytes(n), "signed", n, "object", req),
       Body(pack_plaintext_bytes(n), "nondecimal", 0, "object", req),
       Body(pack_plaintext_bytes(n), "LEN10", n, "garbage", req),
       \* the first block of a message of two blocks, and its continuation
       Body(BLOCK_SIZE - 2, "LEN10", BLOCK_SIZE, "object", req),
       Body(HEADER_SIZE + 2, "cont", 0, "object", req) }

ClientSendRaw(s, body) ==
  /\ cli[s].pc = "READY"
  /\ body \in RawBodies(cli[s].msg_id + 1)
  /\ (body.hdr = "cont") = cli[s].gathering
  /\ LET blk == Seal(cli[s].ch, body)
         first == body.hdr # "cont" /\ body.flen < pack_plaintext_bytes(body.json_len)
     IN /\ cli' = [cli EXCEPT ![s].ch.send_nonce = Inc(@), ![s].sent = @ + 1,
                              ![s].msg_id = IF body.hdr = "cont" THEN @ ELSE @ + 1,
                              ![s].gathering = first,
                              ![s].pc = IF first THEN "READY" ELSE "WAIT_RESP"]
        /\ c2s' = [c2s EXCEPT ![s] = Append(@, blk)]
        /\ hist' = [hist EXCEPT ![s].sealed_c = Append(@, blk.nonce.le64)]
  /\ UNCHANGED <<store, srv, s2c, captured, injected>>

\* channel.recv() of the response (crypto.py lines 81-102), one block per step
ClientRecv(s) ==
  /\ cli[s].pc = "WAIT_RESP"
  /\ IF s2c[s] = << >>
       THEN /\ SrvClosed(s)
            /\ cli' = [cli EXCEPT ![s].pc = "FAILED", ![s].exc = "EOFError"]
            /\ UNCHANGED <<s2c, hist>>
       ELSE LET r == RecvBlock(cli[s], Head(s2c[s]))
            IN /\ s2c' = [s2c EXCEPT ![s] = Tail(@)]
               /\ hist' = [hist EXCEPT ![s].opened_c = Append(@, cli[s].ch.recv_nonce)]
               /\ cli' = [cli EXCEPT ![s] = [r EXCEPT !.pc = IF r.exc # NoExc THEN "FAILED"
                                                             ELSE IF r.done THEN "READY"
                                                             ELSE "WAIT_RESP"]]
  /\ UNCHANGED <<store, srv, c2s, captured, injected>>

\* close(): the socket is closed, the server reads EOF once the stream is drained
ClientClose(s) ==
  /\ cli[s].pc \notin {"NEW", "CLOSED"}
  /\ cli' = [cli EXCEPT ![s].pc = "CLOSED"]
  /\ UNCHANGED <<store, srv, c2s, s2c, hist, captured, injected>>

\* The framed-region lengths of the blocks of a message of n JSON bytes, as a
\* peer that sends messages in several blocks may cut it: the first block
\* holds the length prefix and the first bytes, each later block more bytes,
\* the last one possibly more than the message needs.
Splits(n) ==
  { <<HEADER_SIZE + n>>,
    <<HEADER_SIZE + n - 1, 1>>,
    <<HEADER_SIZE, n>>,
    <<HEADER_SIZE + 1, 1, n - 2>>,
    <<HEADER_SIZE + 1, 0, n - 1>>,
    <<HEADER_SIZE + 1, n + 4>> }

\* a client that seals the blocks of its message itself, one counter value
\* after the other, and may write its next message before it reads the response
ClientSendSplit(s, req, split) ==
  /\ cli[s].pc \in {"READY", "WAIT_RESP"}
  /\ ~cli[s].gathering
  /\ req.id = cli[s].msg_id + 1
  /\ split \in Splits(LenRequest(req))
  /\ LET out == [i \in 1..Len(split) |->
                   Seal([cli[s].ch EXCEPT !.send_nonce = Plus(@, i - 1)],
                        Body(split[i], IF i = 1 THEN "LEN10" ELSE "cont",
                             IF i = 1 THEN LenRequest(req) ELSE 0, "object", req))]
     IN /\ cli' = [cli EXCEPT ![s].ch.send_nonce = Plus(@, Len(split)), ![s].msg_id = req.id,
                              ![s].sent = @ + 1, ![s].pc = "WAIT_RESP"]
        /\ c2s' = [c2s EXCEPT ![s] = @ \o out]
        /\ hist' = [hist EXCEPT ![s].sealed_c = @ \o [i \in 1..Len(out) |-> out[i].nonce.le64]]
  /\ UNCHANGED <<store, srv, s2c, captured, injected>>

(***************************************************************************)
(* Server: MockServer.handle_client, one blocking read per step.           *)
(***************************************************************************)
\* a key store that has a key for every name
KnownIdentity_Anyone(name) == TRUE

\* _get_client_pk: the static public key stored for the identity, if any
KnownIdentity(name) == name \in KnownIdentities

\* a gate that lets every first frame through
IsControlInit_Any(req) == TRUE

\* the gate of line 363
IsControlInit(req) == req.method = "control/init"

\* a loop that never breaks
LoopBreaks_Never(resp) == FALSE

\* the exit test of line 379
LoopBreaks(resp) == resp.method = "control/exit"

\* the init reply of _handle_init (lines 177, 179)
InitReply(req, valid) ==
  [id |-> req.id, method |-> "control/init", valid |-> valid, publicKey |-> StaticKey("server")]

\* a server that sends its reply and then waits for the client's key-exchange
\* block before it sends its own
ServerInit_WaitsFirst(s) ==
  /\ srv[s].pc = "INIT"
  /\ c2s[s] # << >>
  /\ Head(c2s[s]).kind = "plain"
  /\ LET req == Head(c2s[s]).msg
     IN /\ c2s' = [c2s EXCEPT ![s] = Tail(@)]
        /\ identity' = req.identity
        /\ s2c' = [s2c EXCEPT ![s] = Append(@, Plain(InitReply(req, TRUE)))]
        /\ hist' = [hist EXCEPT ![s].replies = Append(@, InitReply(req, TRUE))]
        /\ srv' = [srv EXCEPT ![s].pc = "AWAIT_CLIENT_EPHEMERAL", ![s].identity = req.identity]
  /\ UNCHANGED <<projects, active_project, cli, captured, injected>>

\* lines 362-374: recv_plaintext, the control/init gate, _handle_init and its reply,
\* the identity lookup, and server_key_exchange up to its read_exact
ServerInit(s) ==
  /\ srv[s].pc = "INIT"
  /\ IF c2s[s] = << >>
       THEN /\ CliClosed(s)
            /\ srv' = [srv EXCEPT ![s] = SrvRaise(@, "EOFError")]
            /\ UNCHANGED <<identity, c2s, s2c, hist>>
       ELSE LET item == Head(c2s[s])
                req == item.msg
                mine == EphBlock(StaticKey(req.identity), StaticKey("server"),
                                 EphKey("S_recv", s), EphKey("S_send", s))
            IN /\ c2s' = [c2s EXCEPT ![s] = Tail(@)]
               /\ IF item.kind # "plain"
                    THEN /\ srv' = [srv EXCEPT ![s] = SrvRaise(@, "ValueError")]
                         /\ UNCHANGED <<identity, s2c, hist>>
                  ELSE IF ~IsControlInit(req)
                    THEN /\ srv' = [srv EXCEPT ![s].pc = "CLOSED"]
                         /\ UNCHANGED <<identity, s2c, hist>>
                  ELSE IF ~KnownIdentity(req.identity)
                    THEN /\ s2c' = [s2c EXCEPT ![s] = Append(@, Plain(InitReply(req, FALSE)))]
                         /\ hist' = [hist EXCEPT ![s].replies = Append(@, InitReply(req, FALSE))]
                         /\ srv' = [srv EXCEPT ![s].pc = "CLOSED"]
                         /\ identity' = identity
                  ELSE /\ identity' = req.identity
                       /\ s2c' = [s2c EXCEPT ![s] = @ \o <<Plain(InitReply(req, TRUE)), mine>>]
                       /\ hist' = [hist EXCEPT ![s].replies = Append(@, InitReply(req, TRUE)),
                                               ![s].eph = @ + 1]
                       /\ srv' = [srv EXCEPT ![s].pc = "AWAIT_CLIENT_EPHEMERAL",
                                             ![s].identity = req.identity]
  /\ UNCHANGED <<projects, active_project, cli, captured, injected>>

\* server_key_exchange from its read_exact on (lines 125-133)
ServerKeyExchange(s) ==
  /\ srv[s].pc = "AWAIT_CLIENT_EPHEMERAL"
  /\ IF c2s[s] = << >>
       THEN /\ CliClosed(s)
            /\ srv' = [srv EXCEPT ![s] = SrvRaise(@, "EOFError")]
            /\ c2s' = c2s
       ELSE LET item == Head(c2s[s])
            IN /\ c2s' = [c2s EXCEPT ![s] = Tail(@)]
               /\ IF CanOpenEph(StaticKey(srv[s].identity), StaticKey("server"), item)
                    THEN srv' = [srv EXCEPT ![s].pc = "READY",
                                   ![s].ch = EncryptedChannel(EphKey("S_recv", s),
                                               EphKey("S_send", s), item.send_pk, item.recv_pk)]
                    ELSE srv' = [srv EXCEPT ![s] = SrvRaise(@, "CryptoError")]
  /\ UNCHANGED <<store, cli, s2c, hist, captured, injected>>

\* channel.recv() of the loop (line 376), one block per step
ServerRecv(s) ==
  /\ srv[s].pc = "READY"
  /\ IF c2s[s] = << >>
       THEN /\ CliClosed(s)
            /\ srv' = [srv EXCEPT ![s] = SrvRaise(@, "EOFError")]
            /\ UNCHANGED <<c2s, hist>>
       ELSE LET r == RecvBlock(srv[s], Head(c2s[s]))
            IN /\ c2s' = [c2s EXCEPT ![s] = Tail(@)]
               /\ hist' = [hist EXCEPT ![s].opened_s = Append(@, srv[s].ch.recv_nonce),
                                       ![s].seen_s = Append(@, Head(c2s[s]).src),
                                       ![s].reqs = IF r.done THEN Append(@, r.msg.id) ELSE @]
               /\ srv' = [srv EXCEPT ![s] = IF r.exc # NoExc THEN SrvRaise(r, r.exc)
                                            ELSE IF r.done THEN [r EXCEPT !.pc = "DISPATCH"]
                                            ELSE r]
  /\ UNCHANGED <<store, cli, s2c, captured, injected>>

\* the project a connection has selected, after its request msg was handled:
\* the name of its last control/change/project, until it removes that project
Selected(cur, msg) ==
  IF msg.method = "control/change/project" THEN msg.name
  ELSE IF msg.method = "control/remove/project" /\ msg.name = cur THEN None
  ELSE cur

\* lines 377-380: _handle_request, channel.send of the response, the exit test.
\* What the handler stored before raising stays stored.
ServerDispatch(s) ==
  /\ srv[s].pc = "DISPATCH"
  /\ LET out == HandleRequest([projects |-> projects, active_project |-> active_project,
                               identity |-> identity], srv[s].msg)
         snd == ChannelSend(srv[s].ch, out.resp, LenResponse(out.resp))
     IN /\ projects' = out.projects
        /\ active_project' = out.active_project
        /\ IF out.exc # NoExc
             THEN /\ srv' = [srv EXCEPT ![s] = SrvRaise(@, out.exc)]
                  /\ UNCHANGED <<s2c, hist>>
           ELSE IF snd.exc # NoExc
             THEN /\ srv' = [srv EXCEPT ![s] = SrvRaise(@, snd.exc)]
                  /\ UNCHANGED <<s2c, hist>>
           ELSE /\ s2c' = [s2c EXCEPT ![s] = @ \o snd.out]
                /\ hist' = [hist EXCEPT ![s].resps = Append(@, out.resp),
                                        ![s].cursor = Selected(@, srv[s].msg),
                                        ![s].sealed_s = @ \o [i \in 1..Len(snd.out) |->
                                                               snd.out[i].nonce.le64]]
                /\ srv' = [srv EXCEPT ![s].ch = snd.ch, ![s].done = FALSE,
                                      ![s].pc = IF LoopBreaks(out.resp)
                                                  THEN "CLOSED" ELSE "READY"]
  /\ UNCHANGED <<identity, cli, c2s, captured, injected>>


(***************************************************************************)
(* The handler threads of two connections run unsynchronised on the one    *)
(* MockServer object: there is no lock around _handle_request.  flow/create *)
(* and flow/add/node read the id counter in one statement and write it in  *)
(* the next; another thread may run between the two.                       *)
(***************************************************************************)
\* the request in hand is a flow/create, or a flow/add/node naming its flow,
\* that gets as far as reading the id counter
ReadsCounter(s) ==
  /\ srv[s].pc = "DISPATCH"
  /\ ~NoActiveProject([projects |-> projects, active_project |-> active_project])
  /\ \/ srv[s].msg.method = "flow/create"
     \/ /\ srv[s].msg.method = "flow/add/node"
        /\ srv[s].msg.flowId # 0
        /\ Has(Get(projects, active_project).next_node_id, srv[s].msg.flowId)

\* fid = proj["next_flow_id"] (line 283), nid = proj["next_node_id"][fid] (line 305)
ServerReadId(s) ==
  /\ ReadsCounter(s)
  /\ LET proj == Get(projects, active_project)
     IN srv' = [srv EXCEPT ![s].pc = "HOLDS_ID",
                           ![s].local = IF srv[s].msg.method = "flow/create"
                                          THEN proj.next_flow_id
                                          ELSE Get(proj.next_node_id, srv[s].msg.flowId)]
  /\ UNCHANGED <<store, cli, c2s, s2c, hist, captured, injected>>

\* the rest of the handler (lines 284-288, 306-315) with the id it read: the
\* counter is incremented from the value it has now, the flow or node is
\* stored under the id held; then channel.send of the response
ServerWriteId(s) ==
  /\ srv[s].pc = "HOLDS_ID"
  /\ Has(projects, active_project)
  /\ LET st == [projects |-> projects, active_project |-> active_project, identity |-> identity]
         proj == Get(projects, active_project)
         msg == srv[s].msg
         held == srv[s].local
         create == msg.method = "flow/create"
         ran == IF create
                  THEN FlowCreate(st, [proj EXCEPT !.next_flow_id = held], msg)
                  ELSE FlowAddNode(st, [proj EXCEPT !.next_node_id = Put(@, msg.flowId, held)],
                                   msg)
         left == Get(ran.projects, active_project)
         proj2 == IF create
                    THEN [left EXCEPT !.next_flow_id = proj.next_flow_id + 1]
                  ELSE IF Has(proj.next_node_id, msg.flowId)
                    THEN [left EXCEPT !.next_node_id =
                            Put(@, msg.flowId, Get(proj.next_node_id, msg.flowId) + 1)]
                  ELSE left
         out == IF ~create /\ ~Has(proj.next_node_id, msg.flowId)
                  THEN Out(projects, active_project, NoResp, "KeyError")
                  ELSE Out(Put(ran.projects, active_project, proj2), active_project,
                           ran.resp, ran.exc)
         snd == ChannelSend(srv[s].ch, out.resp, LenResponse(out.resp))
     IN /\ projects' = out.projects
        /\ active_project' = out.active_project
        /\ IF out.exc # NoExc
             THEN /\ srv' = [srv EXCEPT ![s] = SrvRaise(@, out.exc)]
                  /\ UNCHANGED <<s2c, hist>>
           ELSE IF snd.exc # NoExc
             THEN /\ srv' = [srv EXCEPT ![s] = SrvRaise(@, snd.exc)]
                  /\ UNCHANGED <<s2c, hist>>
           ELSE /\ s2c' = [s2c EXCEPT ![s] = @ \o snd.out]
                /\ hist' = [hist EXCEPT ![s].resps = Append(@, out.resp),
                                        ![s].sealed_s = @ \o [i \in 1..Len(snd.out) |->
                                                               snd.out[i].nonce.le64]]
                /\ srv' = [srv EXCEPT ![s].ch = snd.ch, ![s].done = FALSE, ![s].pc = "READY"]
  /\ UNCHANGED <<identity, cli, c2s, captured, injected>>


(***************************************************************************)
(* The on-path attacker: it holds no key; it writes ciphertext it has seen *)
(* into a client-to-server stream, or alters bytes in flight.              *)
(***************************************************************************)
\* the attacker keeps a copy of an item it sees in flight
Capture(item) ==
  /\ injected < MaxInject
  /\ Cardinality(captured) < MaxCapture
  /\ item.kind \in {"block", "eph"}
  /\ item.src = "peer"
  /\ item \notin captured
  /\ captured' = captured \cup {item}
  /\ UNCHANGED <<store, srv, cli, c2s, s2c, hist, injected>>

\* it writes a copy into the stream of a connection
Replay(s, b) ==
  /\ injected < MaxInject
  /\ srv[s].pc \notin {"LISTEN", "CLOSED"}
  /\ b \in captured
  /\ c2s' = [c2s EXCEPT ![s] = Append(@, [b EXCEPT !.src = "replay"])]
  /\ injected' = injected + 1
  /\ UNCHANGED <<store, srv, cli, s2c, hist, captured>>

\* it alters the bytes of an item in flight
Tamper(s, i) ==
  /\ injected < MaxInject
  /\ i \in 1..Len(c2s[s])
  /\ c2s[s][i].kind \in {"block", "eph"}
  /\ c2s[s][i].mac
  /\ c2s' = [c2s EXCEPT ![s][i].mac = FALSE]
  /\ injected' = injected + 1
  /\ UNCHANGED <<store, srv, cli, s2c, hist, captured>>

(***************************************************************************)
(* Specifications.                                                         *)
(***************************************************************************)
\* the requests of the session specification
ControlRequests(id, owner) ==
  { Req(id, "control/list/project"), Req(id, "control/exit"), Req(id, "bogus/method"),
    ReqName(id, "control/create/project", "p1", owner),
    ReqName(id, "control/change/project", "p1", None),
    ReqName(id, "control/remove/project", "p1", None) }

\* clients connect one after another, do the handshake or fail it, send
\* requests through the channel or through blocks they build themselves
Next ==
  \/ \E s \in Sessions, prof \in Profiles : ClientConnect(s, prof)
  \/ \E s \in Sessions : ClientInit(s)
  \/ \E s \in Sessions : ClientPlain(s, "control/list/project")
  \/ \E s \in Sessions : ClientRecvPlain(s)
  \/ \E s \in Sessions : ClientKeyExchange(s)
  \/ \E s \in Sessions : \E req \in ControlRequests(cli[s].msg_id + 1, cli[s].identity) :
       cli[s].sent < MaxRequests /\ ClientSend(s, req)
  \/ \E s \in Sessions : \E body \in RawBodies(cli[s].msg_id + 1) :
       cli[s].sent < MaxRequests /\ ClientSendRaw(s, body)
  \/ \E s \in Sessions : ClientRecv(s)
  \/ \E s \in Sessions : ClientClose(s)
  \/ \E s \in Sessions : ServerInit(s)
  \/ \E s \in Sessions : ServerKeyExchange(s)
  \/ \E s \in Sessions : ServerRecv(s)
  \/ \E s \in Sessions : ServerDispatch(s)

Spec == Init /\ [][Next]_vars

\* the clients and requests of the specification with the on-path attacker
AttackProfiles == {<<"alice", "alice">>, <<"mallory", "mallory">>}

AttackRequests(id, owner) ==
  { Req(id, "control/list/project"), Req(id, "control/exit"), Req(id, "bogus/method"),
    ReqName(id, "control/create/project", "p1", owner) }

NextAttack ==
  \/ \E s \in Sessions, prof \in AttackProfiles : ClientConnect(s, prof)
  \/ \E s \in Sessions : ClientInit(s)
  \/ \E s \in Sessions : ClientPlain(s, "control/list/project")
  \/ \E s \in Sessions : ClientRecvPlain(s)
  \/ \E s \in Sessions : ClientKeyExchange(s)
  \/ \E s \in Sessions : \E req \in AttackRequests(cli[s].msg_id + 1, cli[s].identity) :
       cli[s].sent < MaxRequests /\ ClientSend(s, req)
  \/ \E s \in Sessions : \E body \in RawBodies(cli[s].msg_id + 1) :
       cli[s].sent < MaxRequests /\ ClientSendRaw(s, body)
  \/ \E s \in Sessions : ClientRecv(s)
  \/ \E s \in Sessions : ClientClose(s)
  \/ \E s \in Sessions : ServerInit(s)
  \/ \E s \in Sessions : ServerKeyExchange(s)
  \/ \E s \in Sessions : ServerRecv(s)
  \/ \E s \in Sessions : ServerDispatch(s)
  \/ \E s \in Sessions : \E i \in 1..Len(c2s[s]) : Capture(c2s[s][i])
  \/ \E s \in Sessions : \E i \in 1..Len(s2c[s]) : Capture(s2c[s][i])
  \/ \E s \in Sessions : \E b \in captured : Replay(s, b)
  \/ \E s \in Sessions : \E i \in 1..Len(c2s[s]) : Tamper(s, i)

SpecAttack == Init /\ [][NextAttack]_vars

\* the requests of the store specification: one authenticated client works on
\* projects, notes and flows, with names and flow ids that exist and that do not
StoreRequests(id, owner) ==
  { Req(id, "control/exit"),
    ReqName(id, "control/create/project", "p1", owner),
    ReqName(id, "control/change/project", "p1", None),
    ReqName(id, "control/change/project", "p2", None),
    ReqName(id, "control/remove/project", "p1", None),
    ReqNote(id, 1, ShortText), ReqNote(id, 1, BigText),
    ReqFlow(id, "flow/create", 0), ReqFlow(id, "flow/remove", 1),
    [ReqFlow(id, "flow/add/node", 1) EXCEPT !.line = 1] }

NextStore ==
  \/ ClientConnect(1, <<"alice", "alice">>)
  \/ ClientInit(1)
  \/ ClientRecvPlain(1)
  \/ ClientKeyExchange(1)
  \/ \E req \in StoreRequests(cli[1].msg_id + 1, cli[1].identity) :
       cli[1].sent < MaxStoreOps /\ ClientSend(1, req)
  \/ ClientRecv(1)
  \/ ClientClose(1)
  \/ ServerInit(1)
  \/ ServerKeyExchange(1)
  \/ ServerRecv(1)
  \/ ServerDispatch(1)

SpecStore == Init /\ [][NextStore]_vars

\* the clients and requests of the specification of connections that are
\* open at the same time
SharedProfiles == {<<"alice", "alice">>, <<"bob", "bob">>}

SharedRequests(id, owner) ==
  { ReqName(id, "control/create/project", "p1", owner),
    ReqName(id, "control/change/project", "p1", None),
    ReqName(id, "control/change/project", "p2", None),
    ReqName(id, "control/remove/project", "p1", None),
    ReqNote(id, 1, ShortText) }

NextShared ==
  \/ \E s \in Sessions, prof \in SharedProfiles : ClientConnectShared(s, prof)
  \/ \E s \in Sessions : ClientInit(s)
  \/ \E s \in Sessions : ClientRecvPlain(s)
  \/ \E s \in Sessions : ClientKeyExchange(s)
  \/ \E s \in Sessions : \E req \in SharedRequests(cli[s].msg_id + 1, cli[s].identity) :
       cli[s].sent < MaxSharedOps /\ ClientSend(s, req)
  \/ \E s \in Sessions : ClientRecv(s)
  \/ \E s \in Sessions : ServerInit(s)
  \/ \E s \in Sessions : ServerKeyExchange(s)
  \/ \E s \in Sessions : ServerRecv(s)
  \/ \E s \in Sessions : ServerDispatch(s)

SpecShared == Init /\ [][NextShared]_vars

\* a note text without hashtag for which the response of notes/set, framed, is
\* BLOCK_SIZE - 2 bytes: header, JSON and the two length bytes fill the block
FullBlockText ==
  LET st == [projects |-> Put(EmptyDict, "p1", NewProject("alice")),
             active_project |-> "p1", identity |-> "alice"]
      base == LenResponse(HandleRequest(st, ReqNote(2, 1, << >>)).resp)
  IN [i \in 1..(BLOCK_SIZE - 2 - pack_plaintext_bytes(base)) |-> "x"]

\* the requests of the dispatch specification: one authenticated client sends
\* the control methods that need no project, a method the server does not
\* know, methods of the method table that client.py has wrappers for, and a
\* note whose response fills one block
DispatchRequests(id, owner) ==
  { ReqName(id, "control/create/project", "p1", owner), ReqNote(id, 1, FullBlockText),
    ReqName(id, "control/change/project", "p1", None),
    Req(id, "control/subscribe"), Req(id, "control/unsubscribe"),
    Req(id, "bogus/method"), Req(id, "control/bogus"), Req(id, "flow/set"),
    Req(id, "control/add/user/server"), Req(id, "control/add/user/project") }

NextDispatch ==
  \/ ClientConnect(1, <<"alice", "alice">>)
  \/ ClientInit(1)
  \/ ClientRecvPlain(1)
  \/ ClientKeyExchange(1)
  \/ \E req \in DispatchRequests(cli[1].msg_id + 1, cli[1].identity) :
       cli[1].sent < MaxDispatchOps /\ ClientSend(1, req)
  \/ ClientRecv(1)
  \/ ClientClose(1)
  \/ ServerInit(1)
  \/ ServerKeyExchange(1)
  \/ ServerRecv(1)
  \/ ServerDispatch(1)

SpecDispatch == Init /\ [][NextDispatch]_vars

\* the requests of the notes specification.  As every test of test_notes.py
\* does, the first client creates project p1 and selects it, then sets,
\* removes and lists notes of two files; a later client selects the project
\* or lists the projects, and removes and lists notes.
NotesRequests(s, id, owner) ==
  IF s = 1 /\ cli[s].sent = 0
    THEN { ReqName(id, "control/create/project", "p1", owner) }
  ELSE IF cli[s].sent = (IF s = 1 THEN 1 ELSE 0)
    THEN { ReqName(id, "control/change/project", "p1", None) }
         \cup (IF s > 1 THEN { Req(id, "control/list/project") } ELSE {})
  ELSE IF s > 1
    THEN { ReqLoc(id, "notes/remove", URI, 1), ReqLoc(id, "notes/for/file", URI, 0) }
  ELSE { ReqNote(id, 1, ShortText), ReqNote(id, 1, OtherText), ReqNote(id, 2, ShortText),
         ReqNote(id, 2, ManyTags), [ReqNote(id, 1, ShortText) EXCEPT !.uri = URI2],
         ReqLoc(id, "notes/remove", URI, 1), ReqLoc(id, "notes/for/file", URI, 0) }

\* requests sent so far by all clients
SentTotal == SumSeq([s \in Sessions |-> cli[s].sent])

\* clients connect one after another; the records of a finished connection
\* are kept
NextNotes ==
  \/ \E s \in Sessions :
       (\A t \in Sessions : t < s => Finished(t)) /\ ClientConnectShared(s, <<"alice", "alice">>)
  \/ \E s \in Sessions : ClientInit(s)
  \/ \E s \in Sessions : ClientRecvPlain(s)
  \/ \E s \in Sessions : ClientKeyExchange(s)
  \/ \E s \in Sessions : \E req \in NotesRequests(s, cli[s].msg_id + 1, cli[s].identity) :
       SentTotal < MaxNoteOps /\ ClientSend(s, req)
  \/ \E s \in Sessions : ClientRecv(s)
  \/ \E s \in Sessions : ClientClose(s)
  \/ \E s \in Sessions : ServerInit(s)
  \/ \E s \in Sessions : ServerKeyExchange(s)
  \/ \E s \in Sessions : ServerRecv(s)
  \/ \E s \in Sessions : ServerDispatch(s)

SpecNotes == Init /\ [][NextNotes]_vars

\* the requests of the flow specification.  As every test of test_flow.py
\* does, the client creates project p1 and selects it; after that it creates,
\* reads and removes flows and adds, forks, sets and removes nodes.
FlowRequests(id, owner) ==
  IF cli[1].sent = 0 THEN { ReqName(id, "control/create/project", "p1", owner) }
  ELSE IF cli[1].sent = 1 THEN { ReqName(id, "control/change/project", "p1", None) }
  ELSE { ReqFlow(id, "flow/create", 0), ReqFlow(id, "flow/remove", 1),
         ReqFlow(id, "flow/add/node", 1),
         [ReqFlow(id, "flow/add/node", 1) EXCEPT !.parentId = 1],
         [ReqFlow(id, "flow/add/node", 1) EXCEPT !.childId = 2],
         [Req(id, "flow/fork/node") EXCEPT !.parentId = 1],
         ReqNode(id, "flow/remove/node", 1), ReqNode(id, "flow/set/node", 1),
         ReqFlow(id, "flow/get", 1), Req(id, "flow/get/all") }

NextFlow ==
  \/ ClientConnect(1, <<"alice", "alice">>)
  \/ ClientInit(1)
  \/ ClientRecvPlain(1)
  \/ ClientKeyExchange(1)
  \/ \E req \in FlowRequests(cli[1].msg_id + 1, cli[1].identity) :
       cli[1].sent < MaxFlowOps /\ ClientSend(1, req)
  \/ ClientRecv(1)
  \/ ClientClose(1)
  \/ ServerInit(1)
  \/ ServerKeyExchange(1)
  \/ ServerRecv(1)
  \/ ServerDispatch(1)

SpecFlow == Init /\ [][NextFlow]_vars

\* the requests of the search specification.  As the search tests of
\* test_notes.py do, the client creates project p1 and selects it, sets notes
\* that carry their own dates, and then counts tags and searches.
SearchRequests(id, owner) ==
  IF cli[1].sent = 0 THEN { ReqName(id, "control/create/project", "p1", owner) }
  ELSE IF cli[1].sent = 1 THEN { ReqName(id, "control/change/project", "p1", None) }
  ELSE { ReqDated(id, 1, ShortText, 2, 3), ReqDated(id, 2, UpperText, 1, 4),
         ReqDated(id, 1, UpperText, 3, 1),
         ReqLoc(id, "notes/remove", URI, 1), Req(id, "notes/tag/count") }
       \cup { ReqSearch(id, "notes/search/tags", q) : q \in {<<"a">>, <<"A">>} }
       \cup { ReqColumns(id, "alice", by, ord) :
                by \in {"createdDate", "modifiedDate"}, ord \in {"ascending", "descending"} }
       \cup { ReqColumns(id, "bob", "createdDate", "ascending") }

NextSearch ==
  \/ ClientConnect(1, <<"alice", "alice">>)
  \/ ClientInit(1)
  \/ ClientRecvPlain(1)
  \/ ClientKeyExchange(1)
  \/ \E req \in SearchRequests(cli[1].msg_id + 1, cli[1].identity) :
       cli[1].sent < MaxSearchOps /\ ClientSend(1, req)
  \/ ClientRecv(1)
  \/ ClientClose(1)
  \/ ServerInit(1)
  \/ ServerKeyExchange(1)
  \/ ServerRecv(1)
  \/ ServerDispatch(1)

SpecSearch == Init /\ [][NextSearch]_vars

\* the requests of the paging specification: after the fixture the client
\* sets notes at three lines of one file and reads them page by page
PageRequests(id, owner) ==
  IF cli[1].sent = 0 THEN { ReqName(id, "control/create/project", "p1", owner) }
  ELSE IF cli[1].sent = 1 THEN { ReqName(id, "control/change/project", "p1", None) }
  ELSE { ReqDated(id, line, ShortText, line, line) : line \in 1..3 }
       \cup { ReqPage(ReqLoc(id, "notes/for/file", URI, 0), 0, 2),
              ReqPage(ReqLoc(id, "notes/for/file", URI, 0), 1, 2),
              ReqPage(ReqLoc(id, "notes/for/file", URI, 0), 1, 1),
              ReqPage(ReqColumns(id, "alice", "createdDate", "ascending"), 0, 2),
              ReqPage(ReqColumns(id, "alice", "createdDate", "ascending"), 1, 2) }

NextPage ==
  \/ ClientConnect(1, <<"alice", "alice">>)
  \/ ClientInit(1)
  \/ ClientRecvPlain(1)
  \/ ClientKeyExchange(1)
  \/ \E req \in PageRequests(cli[1].msg_id + 1, cli[1].identity) :
       cli[1].sent < MaxPageOps /\ ClientSend(1, req)
  \/ ClientRecv(1)
  \/ ClientClose(1)
  \/ ServerInit(1)
  \/ ServerKeyExchange(1)
  \/ ServerRecv(1)
  \/ ServerDispatch(1)

SpecPage == Init /\ [][NextPage]_vars

\* the requests of the two clients that work on one project together: the
\* first creates project p1 and selects it, then both create flows and add
\* nodes to flow 1
RaceRequests(s, id, owner) ==
  IF s = 1 /\ cli[1].sent = 0 THEN { ReqName(id, "control/create/project", "p1", owner) }
  ELSE IF s = 1 /\ cli[1].sent = 1 THEN { ReqName(id, "control/change/project", "p1", None) }
  ELSE { ReqFlow(id, "flow/create", 0), ReqFlow(id, "flow/add/node", 1) }

\* the second client connects when the first has selected the project, and
\* the flow requests start when both handshakes are done
NextRace ==
  \/ \E s \in 1..2 :
       /\ s = 2 => (cli[1].sent = 2 /\ cli[1].pc = "READY")
       /\ ClientConnectShared(s, <<"alice", "alice">>)
  \/ \E s \in 1..2 : ClientInit(s)
  \/ \E s \in 1..2 : ClientRecvPlain(s)
  \/ \E s \in 1..2 : ClientKeyExchange(s)
  \/ \E s \in 1..2 : \E req \in RaceRequests(s, cli[s].msg_id + 1, cli[s].identity) :
       /\ (s = 2 \/ cli[1].sent >= 2) => cli[2].pc \in {"READY", "WAIT_RESP"}
       /\ cli[s].sent < (IF s = 1 THEN 2 ELSE 0) + MaxRaceOps
       /\ ClientSend(s, req)
  \/ \E s \in 1..2 : ClientRecv(s)
  \/ \E s \in 1..2 : ServerInit(s)
  \/ \E s \in 1..2 : ServerKeyExchange(s)
  \/ \E s \in 1..2 : ServerRecv(s)
  \/ \E s \in 1..2 : ~ReadsCounter(s) /\ ServerDispatch(s)
  \/ \E s \in 1..2 : ServerReadId(s)
  \/ \E s \in 1..2 : ServerWriteId(s)

SpecRace == Init /\ [][NextRace]_vars

\* clients of known identities with their own keys connect one after another
\* on reliable connections, do the handshake, send requests and close.  Each
\* side is a running thread: a handshake step that can be taken is taken.
NextHandshake ==
  \/ \E s \in Sessions, prof \in SharedProfiles : ClientConnect(s, prof)
  \/ \E s \in Sessions : ClientInit(s)
  \/ \E s \in Sessions : ClientRecvPlain(s)
  \/ \E s \in Sessions : ClientKeyExchange(s)
  \/ \E s \in Sessions : \E req \in ControlRequests(cli[s].msg_id + 1, cli[s].identity) :
       cli[s].sent < MaxRequests /\ ClientSend(s, req)
  \/ \E s \in Sessions : ClientRecv(s)
  \/ \E s \in Sessions : cli[s].pc = "READY" /\ ClientClose(s)
  \/ \E s \in Sessions : ServerInit(s)
  \/ \E s \in Sessions : ServerKeyExchange(s)
  \/ \E s \in Sessions : ServerRecv(s)
  \/ \E s \in Sessions : ServerDispatch(s)

SpecHandshake ==
  /\ Init
  /\ [][NextHandshake]_vars
  /\ \A s \in Sessions :
       /\ WF_vars(ClientInit(s))
       /\ WF_vars(ClientRecvPlain(s))
       /\ WF_vars(ClientKeyExchange(s))
       /\ WF_vars(ServerInit(s))
       /\ WF_vars(ServerKeyExchange(s))

\* the requests of the projects specification: the client creates projects
\* p1 and p2, selects p1 and gives it a note, a flow and a node; after that it
\* creates, removes, selects and lists projects and works on the notes and
\* flows of the one selected
ProjectRequests(id, owner) ==
  CASE cli[1].sent = 0 -> { ReqName(id, "control/create/project", "p1", owner) }
    [] cli[1].sent = 1 -> { ReqName(id, "control/create/project", "p2", owner) }
    [] cli[1].sent = 2 -> { ReqName(id, "control/change/project", "p1", None) }
    [] cli[1].sent = 3 -> { ReqNote(id, 1, ShortText) }
    [] cli[1].sent = 4 -> { ReqFlow(id, "flow/create", 0) }
    [] cli[1].sent = 5 -> { ReqFlow(id, "flow/add/node", 1) }
    [] OTHER ->
         { ReqName(id, "control/create/project", "p1", owner),
           ReqName(id, "control/create/project", "p2", owner),
           ReqName(id, "control/remove/project", "p1", None),
           ReqName(id, "control/change/project", "p1", None),
           ReqName(id, "control/change/project", "p2", None),
           Req(id, "control/list/project"),
           ReqNote(id, 1, OtherText), ReqLoc(id, "notes/remove", URI, 1),
           ReqLoc(id, "notes/for/file", URI, 0),
           ReqFlow(id, "flow/create", 0), ReqFlow(id, "flow/add/node", 1),
           ReqFlow(id, "flow/remove", 1), ReqFlow(id, "flow/get", 1),
           ReqNode(id, "flow/remove/node", 1), ReqNode(id, "flow/set/node", 1),
           [Req(id, "flow/fork/node") EXCEPT !.parentId = 1] }

NextProjects ==
  \/ ClientConnect(1, <<"alice", "alice">>)
  \/ ClientInit(1)
  \/ ClientRecvPlain(1)
  \/ ClientKeyExchange(1)
  \/ \E req \in ProjectRequests(cli[1].msg_id + 1, cli[1].identity) :
       cli[1].sent < MaxProjectOps /\ ClientSend(1, req)
  \/ ClientRecv(1)
  \/ ClientClose(1)
  \/ ServerInit(1)
  \/ ServerKeyExchange(1)
  \/ ServerRecv(1)
  \/ ServerDispatch(1)

SpecProjects == Init /\ [][NextProjects]_vars

\* the requests of the node specification: the client creates project p1,
\* selects it, creates two flows and adds a node to each, so that node id 1
\* is in both; after that it sets, removes and forks nodes by id, adds nodes
\* and creates and removes flows
NodeRequests(id, owner) ==
  CASE cli[1].sent = 0 -> { ReqName(id, "control/create/project", "p1", owner) }
    [] cli[1].sent = 1 -> { ReqName(id, "control/change/project", "p1", None) }
    [] cli[1].sent \in {2, 3} -> { ReqFlow(id, "flow/create", 0) }
    [] cli[1].sent = 4 -> { ReqFlow(id, "flow/add/node", 1) }
    [] cli[1].sent = 5 -> { ReqFlow(id, "flow/add/node", 2) }
    [] OTHER ->
         { ReqNode(id, "flow/set/node", 1), ReqNode(id, "flow/set/node", 2),
           ReqNode(id, "flow/remove/node", 1), ReqNode(id, "flow/remove/node", 2),
           [Req(id, "flow/fork/node") EXCEPT !.parentId = 1],
           [Req(id, "flow/fork/node") EXCEPT !.parentId = 2],
           [ReqFlow(id, "flow/add/node", 1) EXCEPT !.parentId = 1],
           ReqFlow(id, "flow/add/node", 2),
           ReqFlow(id, "flow/remove", 1), ReqFlow(id, "flow/create", 0) }

NextNode ==
  \/ ClientConnect(1, <<"alice", "alice">>)
  \/ ClientInit(1)
  \/ ClientRecvPlain(1)
  \/ ClientKeyExchange(1)
  \/ \E req \in NodeRequests(cli[1].msg_id + 1, cli[1].identity) :
       cli[1].sent < MaxNodeOps /\ ClientSend(1, req)
  \/ ClientRecv(1)
  \/ ClientClose(1)
  \/ ServerInit(1)
  \/ ServerKeyExchange(1)
  \/ ServerRecv(1)
  \/ ServerDispatch(1)

SpecNode == Init /\ [][NextNode]_vars

\* clients that cut their messages into blocks and write ahead
NextGather ==
  \/ \E s \in Sessions, prof \in SharedProfiles : ClientConnect(s, prof)
  \/ \E s \in Sessions : ClientInit(s)
  \/ \E s \in Sessions : ClientRecvPlain(s)
  \/ \E s \in Sessions : ClientKeyExchange(s)
  \/ \E s \in Sessions : \E req \in AttackRequests(cli[s].msg_id + 1, cli[s].identity) :
       \E split \in Splits(LenRequest(req)) :
         cli[s].sent < MaxRequests /\ ClientSendSplit(s, req, split)
  \/ \E s \in Sessions : ClientRecv(s)
  \/ \E s \in Sessions : ClientClose(s)
  \/ \E s \in Sessions : ServerInit(s)
  \/ \E s \in Sessions : ServerKeyExchange(s)
  \/ \E s \in Sessions : ServerRecv(s)
  \/ \E s \in Sessions : ServerDispatch(s)

SpecGather == Init /\ [][NextGather]_vars

\* A connection late in its life: every request has been answered, and each
\* of its four counters holds the same value, where a digit is about to
\* carry or where the 64 bits are about to run out.
LateCounters ==
  { U64(Limb - 1), [MaxU64 EXCEPT ![1] = Limb - 2], MaxU64 }

InitLate ==
  /\ projects = EmptyDict
  /\ active_project = None
  /\ identity = "alice"
  /\ \E c \in LateCounters :
       /\ srv = [s \in Sessions |->
                  IF s = 1
                    THEN [SrvInit EXCEPT !.pc = "READY", !.identity = "alice",
                            !.ch = [EncryptedChannel(EphKey("S_recv", 1), EphKey("S_send", 1),
                                                     EphKey("C_send", 1), EphKey("C_recv", 1))
                                      EXCEPT !.send_nonce = c, !.recv_nonce = c]]
                    ELSE SrvInit]
       /\ cli = [s \in Sessions |->
                  IF s = 1
                    THEN [CliInit EXCEPT !.pc = "READY", !.identity = "alice", !.sk = "alice",
                            !.ch = [EncryptedChannel(EphKey("C_recv", 1), EphKey("C_send", 1),
                                                     EphKey("S_send", 1), EphKey("S_recv", 1))
                                      EXCEPT !.send_nonce = c, !.recv_nonce = c]]
                    ELSE CliInit]
  /\ c2s = [s \in Sessions |-> << >>]
  /\ s2c = [s \in Sessions |-> << >>]
  /\ hist = [s \in Sessions |-> HistInit]
  /\ captured = {}
  /\ injected = 0

\* the late connection goes on, with the on-path attacker copying blocks into
\* its stream; a further client connects once it has ended
NextOverflow ==
  \/ \E s \in Sessions, prof \in SharedProfiles : ClientConnect(s, prof)
  \/ \E s \in Sessions : ClientInit(s)
  \/ \E s \in Sessions : ClientRecvPlain(s)
  \/ \E s \in Sessions : ClientKeyExchange(s)
  \/ \E s \in Sessions : \E req \in AttackRequests(cli[s].msg_id + 1, cli[s].identity) :
       cli[s].sent < MaxRequests /\ ClientSend(s, req)
  \/ \E s \in Sessions : ClientRecv(s)
  \/ \E s \in Sessions : ClientClose(s)
  \/ \E s \in Sessions : ServerInit(s)
  \/ \E s \in Sessions : ServerKeyExchange(s)
  \/ \E s \in Sessions : ServerRecv(s)
  \/ \E s \in Sessions : ServerDispatch(s)
  \/ \E s \in Sessions : \E i \in 1..Len(c2s[s]) : Capture(c2s[s][i])
  \/ \E s \in Sessions : \E b \in captured : Replay(s, b)

SpecOverflow == InitLate /\ [][NextOverflow]_vars

(***************************************************************************)
(* Properties.                                                             *)
(***************************************************************************)
\* number of channel blocks of a stream that their sender sealed and the
\* receiver has not read yet
RECURSIVE InFlight(_)
InFlight(q) ==
  IF q = << >> THEN 0
  ELSE (IF Head(q).kind = "block" /\ Head(q).src = "peer" THEN 1 ELSE 0) + InFlight(Tail(q))

\* both endpoints hold their channel and neither socket is closed
Live(s) == srv[s].pc \in {"READY", "DISPATCH"} /\ cli[s].pc \in {"READY", "WAIT_RESP"}

\* the server consumes the head of the client-to-server stream in this step
ServerReads(s) == c2s[s] # << >> /\ c2s'[s] = Tail(c2s[s]) /\ srv'[s] # srv[s]

\* C1: on a live channel the sender's send counter equals the peer's receive
\* counter plus the number of blocks in flight in that direction (equal when
\* none is in flight), and a channel that has sealed or opened nothing holds 1.
C1_CountersInStep ==
  \A s \in Sessions :
    /\ Live(s) =>
         /\ cli[s].ch.send_nonce = Plus(srv[s].ch.recv_nonce, InFlight(c2s[s]))
         /\ srv[s].ch.send_nonce = Plus(cli[s].ch.recv_nonce, InFlight(s2c[s]))
    /\ cli[s].pc \in {"READY", "WAIT_RESP"} =>
         /\ cli[s].ch.send_nonce = U64(1 + Len(hist[s].sealed_c))
         /\ cli[s].ch.recv_nonce = U64(1 + Len(hist[s].opened_c))
    /\ srv[s].pc \in {"READY", "DISPATCH"} =>
         /\ srv[s].ch.send_nonce = U64(1 + Len(hist[s].sealed_s))
         /\ srv[s].ch.recv_nonce = U64(1 + Len(hist[s].opened_s))

\* two blocks of the client are in flight and the server has read none of them
C1_Witness ==
  \E s \in Sessions :
    /\ Live(s)
    /\ InFlight(c2s[s]) = 2
    /\ cli[s].ch.send_nonce = U64(3)
    /\ srv[s].ch.recv_nonce = U64(1)

\* C2: in each direction of a session the k-th block is sealed with counter k
\* and the k-th open uses counter k: the counters run 1, 2, 3, ... with no
\* value used twice.
C2_CountersSequential ==
  \A s \in Sessions :
    /\ \A k \in 1..Len(hist[s].sealed_c) : hist[s].sealed_c[k] = Le64(U64(k))
    /\ \A k \in 1..Len(hist[s].sealed_s) : hist[s].sealed_s[k] = Le64(U64(k))
    /\ \A k \in 1..Len(hist[s].opened_c) : hist[s].opened_c[k] = U64(k)
    /\ \A k \in 1..Len(hist[s].opened_s) : hist[s].opened_s[k] = U64(k)

\* both sides have sealed two blocks and opened two blocks
C2_Witness ==
  \E s \in Sessions :
    /\ Len(hist[s].sealed_c) = 2 /\ Len(hist[s].opened_s) = 2
    /\ Len(hist[s].sealed_s) = 2 /\ Len(hist[s].opened_c) = 2

\* C3: when the server, past the handshake, reads a block that is a copy of
\* ciphertext sent earlier (in this session or in an earlier one), the open
\* fails: the session is closed, nothing is dispatched, nothing is sent and
\* the store is as it was.
C3_ReplayRejected ==
  [][\A s \in Sessions :
       (srv[s].pc = "READY" /\ ServerReads(s) /\ Head(c2s[s]).src = "replay") =>
         /\ srv'[s].pc = "CLOSED"
         /\ srv'[s].exc = "CryptoError"
         /\ hist'[s].reqs = hist[s].reqs
         /\ hist'[s].resps = hist[s].resps
         /\ s2c'[s] = s2c[s]
         /\ store' = store]_vars

\* the server of a session that had answered a request has read a replayed
\* channel block and is closed
C3_Witness ==
  \E s \in Sessions :
    /\ srv[s].pc = "CLOSED"
    /\ Len(hist[s].seen_s) >= 2
    /\ hist[s].seen_s[Len(hist[s].seen_s)] = "replay"
    /\ Len(hist[s].resps) >= 1
    /\ \E b \in captured : b.kind = "block"

\* C4: the server leaves INIT for the handshake only when the first frame is a
\* plaintext control/init; on anything else it closes at once, with no reply
\* and no key-exchange block, and a closed session stays closed.
C4_InitGate ==
  [][\A s \in Sessions :
       /\ (srv[s].pc = "INIT" /\ srv'[s] # srv[s]) =>
            \/ /\ c2s[s] # << >>
               /\ Head(c2s[s]).kind = "plain"
               /\ Head(c2s[s]).msg.method = "control/init"
            \/ /\ srv'[s].pc = "CLOSED"
               /\ s2c'[s] = s2c[s]
               /\ hist'[s] = hist[s]
       /\ srv[s].pc = "CLOSED" => srv'[s].pc = "CLOSED"]_vars

\* the server has closed on a first frame that is not control/init: the client
\* sent control/list/project in plaintext and nothing came back
C4_Witness ==
  \E s \in Sessions :
    /\ cli[s].pc = "PLAIN_SENT"
    /\ c2s[s] = << >>
    /\ srv[s].pc = "CLOSED"
    /\ srv[s].exc = NoExc
    /\ s2c[s] = << >>
    /\ hist[s].replies = << >>
    /\ hist[s].eph = 0

\* C5: a control/init naming an identity the server has no key for is answered
\* by exactly one plaintext reply with valid false and the server's static
\* public key; the server then closes, sends no key-exchange block, dispatches
\* nothing, and leaves the projects, the cursor and the recorded identity as
\* they were.
C5_UnknownIdentity ==
  [][\A s \in Sessions :
       (/\ srv[s].pc = "INIT"
        /\ ServerReads(s)
        /\ Head(c2s[s]).kind = "plain"
        /\ Head(c2s[s]).msg.method = "control/init"
        /\ Head(c2s[s]).msg.identity \notin KnownIdentities) =>
         /\ srv'[s].pc = "CLOSED"
         /\ s2c'[s] = Append(s2c[s], Plain([id |-> Head(c2s[s]).msg.id, method |-> "control/init",
                                            valid |-> FALSE, publicKey |-> StaticKey("server")]))
         /\ hist'[s].eph = 0
         /\ hist'[s].reqs = << >>
         /\ hist'[s].resps = << >>
         /\ store' = store]_vars

\* after a session of alice, an unknown identity was turned away with one reply,
\* and the recorded identity is still alice
C5_Witness ==
  \E s \in Sessions :
    /\ srv[s].pc = "CLOSED"
    /\ Len(hist[s].replies) = 1
    /\ ~hist[s].replies[1].valid
    /\ hist[s].eph = 0
    /\ cli[s].identity = "mallory"
    /\ identity = "alice"
    /\ projects # EmptyDict

\* C6: in READY, a block that does not open, a frame header that is not ten
\* decimal digits, and the end of the stream each close the session with no
\* response sent and the store as it was.
C6_SilentClose ==
  [][\A s \in Sessions :
       (/\ srv[s].pc = "READY"
        /\ srv'[s] # srv[s]
        /\ \/ c2s[s] = << >>
           \/ ~CanOpen(srv[s].ch, Head(c2s[s]))
           \/ ~srv[s].gathering /\ ~WellFormedHeader(Head(c2s[s]).body.hdr)) =>
         /\ srv'[s].pc = "CLOSED"
         /\ s2c'[s] = s2c[s]
         /\ hist'[s].resps = hist[s].resps
         /\ store' = store]_vars

\* C7: every request the server loop hands to the dispatcher is answered by
\* exactly one response carrying its id, and the session stays READY unless
\* the request is control/exit.
C7_EveryRequestAnswered ==
  [][\A s \in Sessions :
       (srv[s].pc = "DISPATCH" /\ srv'[s] # srv[s]) =>
         /\ Len(hist'[s].resps) = Len(hist[s].resps) + 1
         /\ hist'[s].resps[Len(hist'[s].resps)].id = srv[s].msg.id
         /\ Len(s2c'[s]) = Len(s2c[s]) + 1
         /\ srv[s].msg.method # "control/exit" => srv'[s].pc = "READY"]_vars

\* C8: a control/exit request is answered with a response whose method is
\* control/exit and whose id is the request's, the session is closed with
\* that response as the last thing sent, the store is as it was, and a closed
\* session dispatches nothing more.
C8_ExitAnswered ==
  [][\A s \in Sessions :
       /\ (srv[s].pc = "DISPATCH" /\ srv[s].msg.method = "control/exit" /\ srv'[s] # srv[s]) =>
            /\ Len(hist'[s].resps) = Len(hist[s].resps) + 1
            /\ hist'[s].resps[Len(hist'[s].resps)].method = "control/exit"
            /\ hist'[s].resps[Len(hist'[s].resps)].id = srv[s].msg.id
            /\ Len(s2c'[s]) = Len(s2c[s]) + 1
            /\ s2c'[s][Len(s2c'[s])].body.msg = hist'[s].resps[Len(hist'[s].resps)]
            /\ srv'[s].pc = "CLOSED"
            /\ store' = store
       /\ srv[s].pc = "CLOSED" => srv'[s].pc \notin {"READY", "DISPATCH"}]_vars

\* the client has read the response to its control/exit, the server is closed
\* and the project created before is still stored
C8_Witness ==
  \E s \in Sessions :
    /\ srv[s].pc = "CLOSED"
    /\ srv[s].exc = NoExc
    /\ Len(hist[s].resps) = 2
    /\ hist[s].resps[2].method = "control/exit"
    /\ hist[s].resps[2].id = 3
    /\ cli[s].pc = "READY"
    /\ cli[s].msg.method = "control/exit"
    /\ Has(projects, "p1")

\* C9: the server sends a response only for a request it has received, at most
\* one received request is unanswered at any time, and the i-th response
\* carries the id of the i-th request.
C9_Lockstep ==
  \A s \in Sessions :
    /\ Len(hist[s].resps) <= Len(hist[s].reqs)
    /\ Len(hist[s].reqs) <= Len(hist[s].resps) + 1
    /\ \A i \in 1..Len(hist[s].resps) : hist[s].resps[i].id = hist[s].reqs[i]

\* two requests were answered in order
C9_Witness ==
  \E s \in Sessions :
    /\ hist[s].reqs = <<2, 3>>
    /\ Len(hist[s].resps) = 2
    /\ hist[s].resps[1].id = 2
    /\ hist[s].resps[2].id = 3

\* C10: the active-project cursor is unset or names a project that exists.
C10_CursorNamesProject ==
  Falsy(active_project) \/ Has(projects, active_project)

\* the server thread of the connection hands its request to the dispatcher
Dispatches(s) == srv[s].pc = "DISPATCH" /\ srv'[s] # srv[s]

\* the last response sent on the connection, after the step
LastResp(s) == hist'[s].resps[Len(hist'[s].resps)]

\* the step sent one more response on the connection
Answered(s) == Len(hist'[s].resps) = Len(hist[s].resps) + 1

\* the connection has selected a project and that project exists
HasSelected(s) == hist[s].cursor # None /\ Has(projects, hist[s].cursor)

\* the methods that work on the store of the active project
IsStoreMethod(method) ==
  method \in {"notes/set", "notes/for/file", "notes/remove", "flow/create", "flow/add/node",
              "flow/remove", "flow/remove/node", "flow/get"}

\* C11: the cursor is per session: when a notes/* or flow/* request of a
\* session that selected an existing project is about to be handled, the
\* project the handler will work on is the one that session selected, whatever
\* control/change/project or control/remove/project other sessions issued.
C11_CursorPerSession ==
  \A s \in Sessions :
    (srv[s].pc = "DISPATCH" /\ IsStoreMethod(srv[s].msg.method) /\ HasSelected(s)) =>
      active_project = hist[s].cursor

\* C12: a successful notes/set stores and returns a note whose author and
\* modifiedBy are the identity the issuing session gave in its own control/init.
C12_AuthorIsSessionIdentity ==
  [][\A s \in Sessions :
       (Dispatches(s) /\ srv[s].msg.method = "notes/set" /\ Answered(s)
          /\ LastResp(s).method = "notes/set") =>
         LET note == Get(Get(projects', active_project').notes, <<srv[s].msg.uri, srv[s].msg.line>>)
         IN note.author = srv[s].identity /\ note.modifiedBy = srv[s].identity]_vars

\* C13: a notes/* or flow/* request of a session that has no active project is
\* answered with control/error, reason "no active project" and the request's
\* id, and the projects are left as they were.
C13_NoActiveProject ==
  [][\A s \in Sessions :
       (Dispatches(s) /\ IsStoreMethod(srv[s].msg.method) /\ ~HasSelected(s)) =>
         /\ Answered(s)
         /\ LastResp(s).method = "control/error"
         /\ LastResp(s).reason = "no active project"
         /\ LastResp(s).id = srv[s].msg.id
         /\ projects' = projects]_vars

\* the guard of line 207 on the attributes as a request finds them
Unselected ==
  NoActiveProject([projects |-> projects, active_project |-> active_project])
NeedsNoProject(method) ==
  method \in {"control/change/project", "control/subscribe", "control/unsubscribe"}

\* C14 as stated: control/change/project, control/subscribe and
\* control/unsubscribe received while no project is active are answered
\* control/error "no active project" with the request's id.
C14_ControlNeedsProject ==
  [][\A s \in Sessions :
       (Dispatches(s) /\ NeedsNoProject(srv[s].msg.method) /\ Unselected)
       => /\ Answered(s)
          /\ LastResp(s).method = "control/error"
          /\ LastResp(s).reason = "no active project"
          /\ LastResp(s).id = srv[s].msg.id]_vars

\* C14 amended: control/change/project, control/subscribe and
\* control/unsubscribe need no active project; received while none is active
\* they are answered with the request's method and id, and
\* control/change/project makes the named project the cursor.
C14_ControlNeedsNoProject ==
  [][\A s \in Sessions :
       (Dispatches(s) /\ NeedsNoProject(srv[s].msg.method) /\ Unselected)
       => /\ Answered(s)
          /\ LastResp(s).method = srv[s].msg.method
          /\ LastResp(s).id = srv[s].msg.id
          /\ (srv[s].msg.method = "control/change/project"
                => active_project' = srv[s].msg.name)
          /\ projects' = projects]_vars

\* the first request of the connection, sent before any project was selected,
\* was one of the three methods and has been answered
C14_Witness ==
  \E m \in {"control/change/project", "control/subscribe", "control/unsubscribe"} :
    /\ Len(hist[1].resps) = 1
    /\ hist[1].resps[1].method = m
    /\ projects = EmptyDict

\* C15: a request whose method is not in the dispatch table is answered
\* control/error "unknown method: <name>" whether or not a project is active,
\* the connection stays open and the store is unchanged.
C15_UnknownMethod ==
  [][\A s \in Sessions :
       (Dispatches(s) /\ srv[s].msg.method \in {"bogus/method", "control/bogus"})
       => /\ Answered(s)
          /\ LastResp(s).method = "control/error"
          /\ LastResp(s).reason = "unknown method: " \o srv[s].msg.method
          /\ LastResp(s).id = srv[s].msg.id
          /\ srv'[s].pc = "READY"
          /\ store' = store]_vars

\* C16: with an active project, flow/set, control/add/user/server and
\* control/add/user/project are answered with the method of the request.
C16_TableMethodsRecognised ==
  [][\A s \in Sessions :
       (Dispatches(s) /\ ~Unselected
          /\ srv[s].msg.method \in {"flow/set", "control/add/user/server",
                                     "control/add/user/project"})
       => /\ Answered(s)
          /\ LastResp(s).method = srv[s].msg.method]_vars

\* the notes of the active project, before and after a step
NotesNow == Get(projects, active_project).notes
NotesNext == Get(projects', active_project').notes
\* no two entries of the notes dict have the same (uri, line) key
NoteKeysUnique(notes) ==
  \A i, j \in 1..Len(notes) : notes[i].k = notes[j].k => i = j

\* C17: a project holds at most one note per (uri, line): after notes/set the
\* key holds the note just set, after notes/remove it holds none, and the
\* notes of all other keys are what they were.
C17_OneNotePerLocation ==
  [][\A s \in Sessions :
       (Dispatches(s) /\ ~Unselected
          /\ srv[s].msg.method \in {"notes/set", "notes/remove"})
       => LET key == <<srv[s].msg.uri, srv[s].msg.line>>
          IN /\ active_project' = active_project
             /\ NoteKeysUnique(NotesNext)
             /\ \A k \in (Keys(NotesNow) \cup Keys(NotesNext)) \ {key} :
                  /\ Has(NotesNow, k) /\ Has(NotesNext, k)
                  /\ Get(NotesNext, k) = Get(NotesNow, k)
             /\ IF srv[s].msg.method = "notes/set"
                  THEN /\ Has(NotesNext, key)
                       /\ Get(NotesNext, key).text = srv[s].msg.text
                       /\ Get(NotesNext, key).uri = key[1]
                       /\ Get(NotesNext, key).line = key[2]
                  ELSE ~Has(NotesNext, key)]_vars

\* line 1 of the file was set to one text and later to another while line 2
\* held a note: the project holds the later text at line 1 and the note of
\* line 2
C17_Witness ==
  /\ ~Unselected
  /\ \E i, j \in 1..Len(hist[1].resps) :
       /\ i < j
       /\ hist[1].resps[i].method = "notes/set"
       /\ hist[1].resps[j].method = "notes/set"
       /\ hist[1].resps[i].notes[1].text = ShortText
       /\ hist[1].resps[j].notes[1].text = OtherText
       /\ hist[1].resps[i].notes[1].line = 1
       /\ hist[1].resps[j].notes[1].line = 1
  /\ Keys(NotesNow) = {<<URI, 1>>, <<URI, 2>>}
  /\ Len(NotesNow) = 2
  /\ Get(NotesNow, <<URI, 1>>).text = OtherText

\* C18: notes/for/file with the default page, sent after notes/set, returns
\* every live note of the file once, with its location and text, and no note
\* of another file.
C18_SetThenForFile ==
  [][\A s \in Sessions :
       (Dispatches(s) /\ ~Unselected /\ srv[s].msg.method = "notes/for/file")
       => /\ Answered(s)
          /\ LastResp(s).method = "notes/for/file"
          /\ \A k \in Keys(NotesNow) :
               k[1] = srv[s].msg.uri
               => Cardinality({i \in 1..Len(LastResp(s).notes) :
                                 /\ LastResp(s).notes[i].uri = k[1]
                                 /\ LastResp(s).notes[i].line = k[2]
                                 /\ LastResp(s).notes[i].text = Get(NotesNow, k).text}) = 1
          /\ \A i \in 1..Len(LastResp(s).notes) :
               /\ LastResp(s).notes[i].uri = srv[s].msg.uri
               /\ Has(NotesNow, <<LastResp(s).notes[i].uri, LastResp(s).notes[i].line>>)]_vars

\* C19: notes/remove always succeeds: it is answered notes/remove, the key
\* holds no note afterwards, and when the key held none the store is
\* unchanged.
C19_RemoveIdempotent ==
  [][\A s \in Sessions :
       (Dispatches(s) /\ ~Unselected /\ srv[s].msg.method = "notes/remove")
       => LET key == <<srv[s].msg.uri, srv[s].msg.line>>
          IN /\ Answered(s)
             /\ LastResp(s).method = "notes/remove"
             /\ LastResp(s).id = srv[s].msg.id
             /\ ~Has(NotesNext, key)
             /\ (~Has(NotesNow, key) => store' = store)]_vars

\* C20: every edge leads to a node: for every node u of every flow of every
\* project and every v in u.outEdges, the flow holds a node with id v.
C20_OutEdgesResolve ==
  \A p \in 1..Len(projects) :
    \A f \in 1..Len(projects[p].v.flows) :
      LET nodes == projects[p].v.flows[f].v.nodes
      IN \A u \in 1..Len(nodes) :
           \A e \in 1..Len(nodes[u].v.outEdges) : Has(nodes, nodes[u].v.outEdges[e])

\* the flows of the active project, before and after a step
FlowsNow == Get(projects, active_project).flows
FlowsNext == Get(projects', active_project').flows

\* C21: when flow/fork/node with parentId p, or flow/add/node with a parentId
\* p, is answered with nodeId n, then p is a node of the flow of n, n.inEdges
\* is [p] and p.outEdges is p's earlier outEdges followed by n.
C21_ParentLinked ==
  [][\A s \in Sessions :
       (/\ Dispatches(s) /\ ~Unselected /\ Answered(s)
        /\ srv[s].msg.method \in {"flow/fork/node", "flow/add/node"}
        /\ srv[s].msg.parentId # 0
        /\ LastResp(s).method = srv[s].msg.method)
       => LET p == srv[s].msg.parentId
              n == LastResp(s).nodeId
              f == LastResp(s).flowId
              after == Get(FlowsNext, f).nodes
          IN /\ Has(after, n) /\ Has(after, p)
             /\ Get(after, n).inEdges = <<p>>
             /\ Has(Get(FlowsNow, f).nodes, p)
             /\ Get(after, p).outEdges = Append(Get(Get(FlowsNow, f).nodes, p).outEdges, n)]_vars

\* the responses of a connection so far that carry method m
Answers(s, m) == SelectSeq(hist[s].resps, LAMBDA r : r.method = m)

\* C22: within a project, the k-th flow/create returns flowId k with an empty
\* nodes map: the id is one more than the number of flows created before,
\* larger than every id returned before, and held by no flow, also after
\* flows were removed.
C22_FlowIdsCount ==
  [][\A s \in Sessions :
       (Dispatches(s) /\ ~Unselected /\ srv[s].msg.method = "flow/create")
       => LET k == Len(Answers(s, "flow/create")) + 1
          IN /\ Answered(s)
             /\ LastResp(s).method = "flow/create"
             /\ LastResp(s).flowId = k
             /\ \A i \in 1..(k - 1) : Answers(s, "flow/create")[i].flowId = i
             /\ ~Has(FlowsNow, k)
             /\ Has(FlowsNext, k)
             /\ Get(FlowsNext, k).nodes = EmptyDict]_vars

\* flow 1 was created and removed, and a later flow/create returned flowId 2
C22_Witness ==
  /\ ~Unselected
  /\ \E i, j, k \in 1..Len(hist[1].resps) :
       /\ i < j /\ j < k
       /\ hist[1].resps[i].method = "flow/create" /\ hist[1].resps[i].flowId = 1
       /\ hist[1].resps[j].method = "flow/remove" /\ hist[1].resps[j].flowId = 1
       /\ hist[1].resps[k].method = "flow/create" /\ hist[1].resps[k].flowId = 2
  /\ Keys(FlowsNow) = {2}

\* the nodes a connection was told it created in flow f
NodeAnswers(s, f) ==
  SelectSeq(hist[s].resps,
            LAMBDA r : r.method \in {"flow/add/node", "flow/fork/node"} /\ r.flowId = f)

\* C23: within a flow, the k-th node created by flow/add/node or
\* flow/fork/node gets id k: ids start at 1, grow by one per node, are held
\* by no node of the flow, also after nodes were removed, and a forked node's
\* id differs from its parent's.
C23_NodeIdsCount ==
  [][\A s \in Sessions :
       (/\ Dispatches(s) /\ ~Unselected /\ Answered(s)
        /\ srv[s].msg.method \in {"flow/add/node", "flow/fork/node"}
        /\ LastResp(s).method = srv[s].msg.method)
       => LET f == LastResp(s).flowId
              n == LastResp(s).nodeId
              k == Len(NodeAnswers(s, f)) + 1
          IN /\ n = k
             /\ \A i \in 1..(k - 1) : NodeAnswers(s, f)[i].nodeId = i
             /\ Has(FlowsNow, f) /\ ~Has(Get(FlowsNow, f).nodes, n)
             /\ Has(Get(FlowsNext, f).nodes, n)
             /\ (srv[s].msg.method = "flow/fork/node" => n # srv[s].msg.parentId)]_vars

\* node 1 was created and removed, and the node added to the flow after that
\* got id 2
C23_Witness ==
  /\ ~Unselected
  /\ \E i, j, k \in 1..Len(hist[1].resps) :
       /\ i < j /\ j < k
       /\ hist[1].resps[i].method = "flow/add/node" /\ hist[1].resps[i].nodeId = 1
       /\ hist[1].resps[j].method = "flow/remove/node"
       /\ hist[1].resps[k].method = "flow/add/node" /\ hist[1].resps[k].nodeId = 2
  /\ Has(FlowsNow, 1)
  /\ Keys(Get(FlowsNow, 1).nodes) = {2}

\* no flow of the active project holds a node with id nid
NoNode(nid) == \A f \in 1..Len(FlowsNow) : ~Has(FlowsNow[f].v.nodes, nid)

\* C24: flow/get on a flowId the active project does not hold, and
\* flow/set/node, flow/remove/node and flow/fork/node on a node id (parentId
\* for fork) that no flow of the project holds, are answered control/error
\* with a reason and the request's id, change nothing in the store and leave
\* the connection open.
C24_NotFound ==
  [][\A s \in Sessions :
       (/\ Dispatches(s) /\ ~Unselected
        /\ \/ srv[s].msg.method = "flow/get" /\ ~Has(FlowsNow, srv[s].msg.flowId)
           \/ srv[s].msg.method \in {"flow/set/node", "flow/remove/node"}
                /\ NoNode(srv[s].msg.nodeId)
           \/ srv[s].msg.method = "flow/fork/node" /\ NoNode(srv[s].msg.parentId))
       => /\ Answered(s)
          /\ LastResp(s).method = "control/error"
          /\ LastResp(s).reason # ""
          /\ LastResp(s).id = srv[s].msg.id
          /\ store' = store
          /\ srv'[s].pc = "READY"]_vars

\* the selected project holds no flow, and a flow/get, a flow/fork/node and a
\* flow/set/node or flow/remove/node were each answered with an error
C24_Witness ==
  /\ ~Unselected
  /\ FlowsNow = EmptyDict
  /\ {"flow not found", "node not found", "parent not found"}
       \subseteq {hist[1].resps[i].reason : i \in 1..Len(hist[1].resps)}

\* C25: flow/get/all lists exactly the flows that flow/get answers for: after
\* flow/remove of f the flow is in neither, flow/get/all is answered with the
\* ids of the flows held, and flow/get is answered flow/get for a flow that
\* is held and control/error for any other id.
C25_ListedIffGettable ==
  [][\A s \in Sessions :
       (Dispatches(s) /\ ~Unselected)
       => LET proj == Get(projects, active_project)
              next == Get(projects', active_project')
              fid == srv[s].msg.flowId
          IN /\ Keys(next.flow_infos) = Keys(next.flows)
             /\ (srv[s].msg.method = "flow/remove"
                   => /\ Answered(s) /\ LastResp(s).method = "flow/remove"
                      /\ ~Has(next.flows, fid) /\ ~Has(next.flow_infos, fid))
             /\ (srv[s].msg.method = "flow/get/all"
                   => /\ Answered(s) /\ LastResp(s).method = "flow/get/all"
                      /\ {LastResp(s).flowIds[i] : i \in 1..Len(LastResp(s).flowIds)}
                           = Keys(proj.flows)
                      /\ Len(LastResp(s).flowIds) = Len(proj.flows))
             /\ (srv[s].msg.method = "flow/get"
                   => /\ Answered(s)
                      /\ LastResp(s).method
                           = (IF Has(proj.flow_infos, fid) THEN "flow/get" ELSE "control/error"))]_vars

\* what _handle_request returns for the request a connection is about to
\* dispatch
Reply(s) ==
  HandleRequest([projects |-> projects, active_project |-> active_project,
                 identity |-> identity], srv[s].msg)

\* C26: a message whose framed form is exactly BLOCK_SIZE - 2 = 510 bytes is
\* sent as exactly one block, sealed with the sender's counter, which advances
\* by one; the peer's recv takes that one block, returns the same message and
\* advances its counter by one.
C26_FullBlockRoundTrip ==
  [][\A s \in Sessions :
       /\ (/\ Dispatches(s)
            /\ Reply(s).exc = NoExc
            /\ pack_plaintext_bytes(LenResponse(Reply(s).resp)) = BLOCK_SIZE - 2)
           => /\ Answered(s)
              /\ Len(s2c'[s]) = Len(s2c[s]) + 1
              /\ s2c'[s][Len(s2c'[s])].kind = "block"
              /\ s2c'[s][Len(s2c'[s])].body.msg = Reply(s).resp
              /\ s2c'[s][Len(s2c'[s])].body.flen = BLOCK_SIZE - 2
              /\ s2c'[s][Len(s2c'[s])].nonce = counter_nonce(srv[s].ch.send_nonce)
              /\ srv'[s].ch.send_nonce = Inc(srv[s].ch.send_nonce)
       /\ (/\ cli[s].pc = "WAIT_RESP" /\ hist'[s].opened_c # hist[s].opened_c
            /\ s2c[s] # << >>
            /\ Head(s2c[s]).kind = "block"
            /\ Head(s2c[s]).body.flen = BLOCK_SIZE - 2)
           => /\ cli'[s].pc = "READY"
              /\ cli'[s].msg = Head(s2c[s]).body.msg
              /\ cli'[s].ch.recv_nonce = Inc(cli[s].ch.recv_nonce)
              /\ s2c'[s] = Tail(s2c[s])]_vars

\* the client has received the response of notes/set that fills one block
C26_Witness ==
  /\ cli[1].pc = "READY"
  /\ cli[1].msg.method = "notes/set"
  /\ pack_plaintext_bytes(LenResponse(cli[1].msg)) = BLOCK_SIZE - 2
  /\ cli[1].msg.notes[1].text = FullBlockText
  /\ cli[1].ch.recv_nonce = srv[1].ch.send_nonce

\* C27: a message whose framed form is longer than 510 bytes and fits in two
\* blocks is sent as two blocks sealed with consecutive counters.
C27_TwoBlocks ==
  [][\A s \in Sessions :
       (/\ Dispatches(s)
        /\ Reply(s).exc = NoExc
        /\ pack_plaintext_bytes(LenResponse(Reply(s).resp)) > BLOCK_SIZE - 2
        /\ pack_plaintext_bytes(LenResponse(Reply(s).resp)) <= 2 * (BLOCK_SIZE - 2))
       => /\ Len(s2c'[s]) = Len(s2c[s]) + 2
          /\ s2c'[s][Len(s2c[s]) + 1].nonce = counter_nonce(srv[s].ch.send_nonce)
          /\ s2c'[s][Len(s2c[s]) + 2].nonce = counter_nonce(Inc(srv[s].ch.send_nonce))
          /\ s2c'[s][Len(s2c[s]) + 1].body.json_len = LenResponse(Reply(s).resp)
          /\ srv'[s].ch.send_nonce = Plus(srv[s].ch.send_nonce, 2)]_vars

\* extract_hashtags with every tag in lower case
LowerTags(text) ==
  {Lower(SubSeq(text, i + 1, i + Len(WordAt(text, i + 1)))) :
     i \in {j \in 1..Len(text) : text[j] = "#" /\ WordAt(text, j + 1) # ""}}

\* C28: notes/search/tags is answered with exactly the notes of the active
\* project that carry a tag equal to the query up to case.
C28_TagSearchFoldsCase ==
  [][\A s \in Sessions :
       (Dispatches(s) /\ ~Unselected /\ srv[s].msg.method = "notes/search/tags")
       => /\ Answered(s)
          /\ LastResp(s).method = "notes/search/tags"
          /\ {LastResp(s).notes[i] : i \in 1..Len(LastResp(s).notes)}
               = {NotesNow[i].v : i \in {j \in 1..Len(NotesNow) :
                    Lower(srv[s].msg.text) \in LowerTags(NotesNow[j].v.text)}}]_vars

\* C29: notes/tag/count reports exactly the lower-cased tags of the live
\* notes of the active project, each with the number of live notes that
\* carry it.
C29_TagCountLowerCase ==
  [][\A s \in Sessions :
       (Dispatches(s) /\ ~Unselected /\ srv[s].msg.method = "notes/tag/count")
       => /\ Answered(s)
          /\ LastResp(s).method = "notes/tag/count"
          /\ DOMAIN LastResp(s).tags
               = UNION {LowerTags(NotesNow[i].v.text) : i \in 1..Len(NotesNow)}
          /\ \A t \in DOMAIN LastResp(s).tags :
               LastResp(s).tags[t]
                 = Cardinality({i \in 1..Len(NotesNow) : t \in LowerTags(NotesNow[i].v.text)})]_vars

\* C30: notes/search/columns with a filter on author and an order is
\* answered with notes of that author only, sorted by the named date in the
\* requested direction.
C30_ColumnsFilteredAndOrdered ==
  [][\A s \in Sessions :
       LET DateOf(n) == IF srv[s].msg.by = "createdDate" THEN n.createdDate
                        ELSE n.modifiedDate
       IN
       (/\ Dispatches(s) /\ ~Unselected
        /\ srv[s].msg.method = "notes/search/columns"
        /\ srv[s].msg.author # None
        /\ srv[s].msg.by \in {"createdDate", "modifiedDate"}
        /\ srv[s].msg.ordering \in {"ascending", "descending"})
       => /\ Answered(s)
          /\ LastResp(s).method = "notes/search/columns"
          /\ \A i \in 1..Len(LastResp(s).notes) :
               LastResp(s).notes[i].author = srv[s].msg.author
          /\ \A i, j \in 1..Len(LastResp(s).notes) :
               i < j => IF srv[s].msg.ordering = "ascending"
                          THEN DateOf(LastResp(s).notes[i])
                                 <= DateOf(LastResp(s).notes[j])
                          ELSE DateOf(LastResp(s).notes[i])
                                 >= DateOf(LastResp(s).notes[j])]_vars

\* C31: a paged notes/for/file or notes/search/columns with size s > 0 is
\* answered with maxPage = max(0, ceil(total/s) - 1), and page i <= maxPage
\* holds the items at positions i*s .. min((i+1)*s, total) - 1 of the list of
\* matching notes: for notes/for/file, the notes of the file sorted by line.
C31_PagesPartition ==
  [][\A s \in Sessions :
       LET msg == srv[s].msg
           list == IF msg.method = "notes/for/file"
                     THEN SortByLine(NotesOfFile(NotesNow, msg.uri))
                     ELSE SelectSeq(NoteValues(NotesNow), LAMBDA n : n.author = msg.author)
           total == Len(list)
           size == msg.page[2]
           index == msg.page[1]
           last == IF total = 0 THEN 0 ELSE (total + size - 1) \div size - 1
           hi == IF (index + 1) * size < total THEN (index + 1) * size ELSE total
       IN (/\ Dispatches(s) /\ ~Unselected
           /\ msg.method \in {"notes/for/file", "notes/search/columns"}
           /\ msg.page # << >>
           /\ size > 0)
          => /\ Answered(s)
             /\ LastResp(s).maxPage = last
             /\ index <= last =>
                  /\ Len(LastResp(s).notes) = hi - index * size
                  /\ msg.method = "notes/for/file"
                       => LastResp(s).notes = SubSeq(list, index * size + 1, hi)]_vars

C33_AtomicIds ==
  LET made(m) == {<<s, i>> \in Sessions \X (1..(2 + MaxRaceOps)) :
                    /\ i <= Len(hist[s].resps)
                    /\ hist[s].resps[i].method = m}
      at(x) == hist[x[1]].resps[x[2]]
  IN /\ \A x, y \in made("flow/create") : x # y => at(x).flowId # at(y).flowId
     /\ \A x \in made("flow/create") : Has(Get(projects, "p1").flows, at(x).flowId)
     /\ \A x, y \in made("flow/add/node") : x # y => at(x).nodeId # at(y).nodeId
     /\ \A x \in made("flow/add/node") :
          /\ Has(Get(projects, "p1").flows, 1)
          /\ Has(Get(Get(projects, "p1").flows, 1).nodes, at(x).nodeId)

\* C34: once both sides of a connection hold their channel, the client seals
\* with (S_recv, C_send) and the server opens with the same pair, the server
\* seals with (C_recv, S_send) and the client opens with the same pair, every
\* block in flight that its sender sealed carries the key of its direction,
\* and the keys of the two directions differ, so that a block sealed for one
\* direction does not open on the other.
C34_ChannelsAgree ==
  \A s \in Sessions :
    Live(s) =>
      LET c == cli[s].ch
          v == srv[s].ch
          up == BoxKey(c.theirs_send_pk, c.ours_send_sk)
          down == BoxKey(v.theirs_send_pk, v.ours_send_sk)
      IN /\ up = BoxKey(EphKey("S_recv", s), EphKey("C_send", s))
         /\ up = BoxKey(v.theirs_recv_pk, v.ours_recv_sk)
         /\ down = BoxKey(EphKey("C_recv", s), EphKey("S_send", s))
         /\ down = BoxKey(c.theirs_recv_pk, c.ours_recv_sk)
         /\ \A i \in 1..Len(c2s[s]) :
              (c2s[s][i].kind = "block" /\ c2s[s][i].src = "peer")
                => /\ CanOpen_AnyNonce(v, c2s[s][i])
                   /\ ~CanOpen_AnyNonce(c, c2s[s][i])
         /\ \A i \in 1..Len(s2c[s]) :
              (s2c[s][i].kind = "block" /\ s2c[s][i].src = "peer")
                => /\ CanOpen_AnyNonce(c, s2c[s][i])
                   /\ ~CanOpen_AnyNonce(v, s2c[s][i])

\* after the handshake a request has been opened by the server and its
\* response by the client, and the next request is in flight
C34_Witness ==
  /\ Live(1)
  /\ hist[1].opened_s # << >>
  /\ hist[1].opened_c # << >>
  /\ c2s[1] # << >>
  /\ c2s[1][1].kind = "block"

C36_CounterNeverWraps ==
  [][\A s \in Sessions :
       /\ (cli[s].pc = "READY" /\ cli'[s].sent = cli[s].sent + 1)
            => IF cli[s].ch.send_nonce[5] # 0
                 THEN /\ c2s'[s] = c2s[s]
                      /\ cli'[s].exc = "struct.error"
                      /\ cli'[s].ch = cli[s].ch
                 ELSE c2s'[s] # c2s[s]
                        => /\ c2s'[s][Len(c2s'[s])].nonce.le64 = SubSeq(cli[s].ch.send_nonce, 1, 4)
                           /\ c2s'[s][Len(c2s'[s])].nonce.exc = NoExc
                           /\ cli'[s].ch.send_nonce = Inc(cli[s].ch.send_nonce)
                           /\ cli[s].ch.send_nonce = MaxU64
                                => cli'[s].ch.send_nonce = <<0, 0, 0, 0, 1>>
       /\ (srv[s].pc = "DISPATCH" /\ srv'[s] # srv[s])
            => IF srv[s].ch.send_nonce[5] # 0
                 THEN /\ s2c'[s] = s2c[s]
                      /\ srv'[s].pc = "CLOSED"
                      /\ srv'[s].exc # NoExc
                 ELSE s2c'[s] # s2c[s]
                        => /\ s2c'[s][Len(s2c'[s])].nonce.le64 = SubSeq(srv[s].ch.send_nonce, 1, 4)
                           /\ s2c'[s][Len(s2c'[s])].nonce.exc = NoExc
                           /\ srv'[s].ch.send_nonce = Inc(srv[s].ch.send_nonce)
       /\ (srv[s].pc = "READY" /\ ServerReads(s) /\ srv[s].ch.recv_nonce[5] # 0)
            => /\ srv'[s].pc = "CLOSED"
               /\ srv'[s].exc = "struct.error"
               /\ srv'[s].ch = srv[s].ch
               /\ hist'[s].reqs = hist[s].reqs
       /\ (cli[s].pc = "WAIT_RESP" /\ s2c[s] # << >> /\ s2c'[s] = Tail(s2c[s])
            /\ cli[s].ch.recv_nonce[5] # 0)
            => /\ cli'[s].pc = "FAILED"
               /\ cli'[s].exc = "struct.error"]_vars

\* the client sealed a block with counter 2^64 - 1, the server opened it with
\* the same; the client's next send raised, and a block written into the
\* stream made the server's next open raise
C36_Witness ==
  /\ cli[1].ch.send_nonce = <<0, 0, 0, 0, 1>>
  /\ cli[1].exc = "struct.error"
  /\ hist[1].sealed_c # << >>
  /\ hist[1].sealed_c[Len(hist[1].sealed_c)] = SubSeq(MaxU64, 1, 4)
  /\ srv[1].ch.recv_nonce = <<0, 0, 0, 0, 1>>
  /\ srv[1].exc = "struct.error"

\* the number of blocks at the head of stream q whose framed regions hold n
\* more bytes between them
RECURSIVE BlocksNeeded(_, _)
BlocksNeeded(q, n) ==
  IF n <= 0 \/ q = << >> THEN 0
  ELSE 1 + BlocksNeeded(Tail(q), n - Head(q).body.flen)

\* C37: recv of a message whose first block announces N JSON bytes takes the
\* smallest number k >= 1 of consecutive blocks whose framed regions, less the
\* ten bytes of the first one's length prefix, hold N bytes: every block it
\* takes is a block of that message, it returns the message with the block
\* that completes it and leaves the blocks of the next message in the stream;
\* each block taken advances the receive counter by one.
C37_RecvGathers ==
  [][\A s \in Sessions :
       (srv[s].pc = "READY" /\ ServerReads(s))
       => LET b == Head(c2s[s]).body
              rest == Tail(c2s[s])
              mine == { i \in 1..Len(rest) : rest[i].body.msg.id = b.msg.id }
          IN /\ srv'[s].ch.recv_nonce = Inc(srv[s].ch.recv_nonce)
             /\ srv'[s].pc \in {"READY", "DISPATCH"}
             /\ srv[s].gathering => b.hdr = "cont" /\ b.msg.id = srv[s].msg.id
             /\ ~srv[s].gathering
                  => /\ b.hdr = "LEN10"
                     /\ mine = 1..BlocksNeeded(rest, b.json_len - (b.flen - HEADER_SIZE))
             /\ srv'[s].pc = "DISPATCH"
                  => /\ mine = {}
                     /\ srv'[s].msg = b.msg
                     /\ hist'[s].reqs = Append(hist[s].reqs, b.msg.id)
             /\ srv'[s].pc = "READY"
                  => /\ 1 \in mine
                     /\ srv'[s].gathering
                     /\ hist'[s].reqs = hist[s].reqs]_vars

\* recv has returned the first message after three blocks, the counter stands
\* at 4, and the first block of the next message is still in the stream
C37_Witness ==
  /\ srv[1].pc = "DISPATCH"
  /\ Len(hist[1].reqs) = 1
  /\ Len(hist[1].opened_s) = 3
  /\ srv[1].ch.recv_nonce = U64(4)
  /\ c2s[1] # << >>
  /\ Head(c2s[1]).body.msg.id = hist[1].reqs[1] + 1
  /\ Head(c2s[1]).body.hdr = "LEN10"

\* C38: control/create/project succeeds and leaves the project it names
\* empty (no notes, no flows, next_flow_id = 1), whatever a project of that
\* name held before; the projects keep one entry per name, which is what
\* control/list/project lists; every other project and the cursor are as before.
C38_CreateResets ==
  [][\A s \in Sessions :
       /\ (Dispatches(s) /\ srv[s].msg.method = "control/create/project")
            => LET n == srv[s].msg.name
               IN /\ Answered(s)
                  /\ LastResp(s).method = "control/create/project"
                  /\ Has(projects', n)
                  /\ Get(projects', n).notes = << >>
                  /\ Get(projects', n).flows = << >>
                  /\ Get(projects', n).flow_infos = << >>
                  /\ Get(projects', n).next_node_id = << >>
                  /\ Get(projects', n).next_flow_id = 1
                  /\ Keys(projects') = Keys(projects) \cup {n}
                  /\ Cardinality(Keys(projects')) = Len(projects')
                  /\ \A q \in Keys(projects) \ {n} : Get(projects', q) = Get(projects, q)
                  /\ active_project' = active_project
       /\ (Dispatches(s) /\ srv[s].msg.method = "control/list/project")
            => /\ Answered(s)
               /\ Len(LastResp(s).names) = Cardinality(Keys(projects))
               /\ {LastResp(s).names[i] : i \in 1..Len(LastResp(s).names)} = Keys(projects)
               /\ projects' = projects]_vars

\* project p1 held a note, a flow and a node; the seventh request created p1
\* again and the eighth listed the projects: p1 and p2, p1 empty
C38_Witness ==
  /\ Len(hist[1].resps) = 8
  /\ hist[1].resps[7].method = "control/create/project"
  /\ hist[1].resps[8].names = <<"p1", "p2">>
  /\ Get(projects, "p1").notes = << >>
  /\ Get(projects, "p1").flows = << >>
  /\ Get(projects, "p1").next_flow_id = 1
  /\ active_project = "p1"

\* C39: flow/set/node, flow/remove/node and flow/fork/node change one flow
\* of the active project, the one created first among those that hold a node
\* of the given id (flow ids are issued in increasing order), and answer with
\* its id; every other flow, the notes and the flow infos are as before.  In
\* that flow flow/set/node changes the note of the node and nothing else;
\* flow/remove/node takes the node out and leaves every other node, edge lists
\* included, as it was; flow/fork/node adds one node with the parent as its
\* inEdge and appends it to the parent's outEdges.
C39_OneFlowChanged ==
  [][\A s \in Sessions :
       (/\ Dispatches(s)
        /\ srv[s].msg.method \in {"flow/set/node", "flow/remove/node", "flow/fork/node"}
        /\ Has(projects, active_project))
       => LET msg == srv[s].msg
              old == Get(projects, active_project)
              new == Get(projects', active_project)
              nid == IF msg.method = "flow/fork/node" THEN msg.parentId ELSE msg.nodeId
              holders == {f \in Keys(old.flows) : Has(Get(old.flows, f).nodes, nid)}
          IN IF holders = {}
               THEN projects' = projects /\ LastResp(s).method = "control/error"
               ELSE LET f0 == CHOOSE f \in holders : \A g \in holders : f <= g
                        was == Get(old.flows, f0).nodes
                        now == Get(new.flows, f0).nodes
                    IN /\ Answered(s)
                       /\ LastResp(s).flowId = f0
                       /\ Keys(new.flows) = Keys(old.flows)
                       /\ \A f \in Keys(old.flows) \ {f0} : Get(new.flows, f) = Get(old.flows, f)
                       /\ new.notes = old.notes
                       /\ new.flow_infos = old.flow_infos
                       /\ msg.method = "flow/set/node"
                            => /\ Keys(now) = Keys(was)
                               /\ \A n \in Keys(was) \ {nid} : Get(now, n) = Get(was, n)
                               /\ Get(now, nid) = [Get(was, nid) EXCEPT !.note = "m"]
                       /\ msg.method = "flow/remove/node"
                            => /\ Keys(now) = Keys(was) \ {nid}
                               /\ \A n \in Keys(now) : Get(now, n) = Get(was, n)
                       /\ msg.method = "flow/fork/node"
                            => LET child == LastResp(s).nodeId
                               IN /\ child \notin Keys(was)
                                  /\ Keys(now) = Keys(was) \cup {child}
                                  /\ Get(now, child).inEdges = <<nid>>
                                  /\ Get(now, nid) =
                                       [Get(was, nid) EXCEPT !.outEdges = Append(@, child)]
                                  /\ \A n \in Keys(was) \ {nid} : Get(now, n) = Get(was, n)]_vars

\* flows 1 and 2 both held node 1; flow/set/node, flow/fork/node and
\* flow/remove/node of node 1 have worked on flow 1 and left flow 2 as it was
C39_Witness ==
  /\ Len(hist[1].resps) = 9
  /\ hist[1].resps[7].method = "flow/set/node"
  /\ hist[1].resps[8].method = "flow/fork/node"
  /\ hist[1].resps[9].method = "flow/remove/node"
  /\ hist[1].resps[9].flowId = 1
  /\ Keys(Get(Get(projects, "p1").flows, 1).nodes) = {2}
  /\ Get(Get(Get(projects, "p1").flows, 1).nodes, 2).inEdges = <<1>>
  /\ Keys(Get(Get(projects, "p1").flows, 2).nodes) = {1}
  /\ Get(Get(Get(projects, "p1").flows, 2).nodes, 1).note = "n"

====
